---- MODULE Spec2Model ----
(***************************************************************************)
(* Faize: one VM session, seen from the `faize start` process that owns it *)
(* (runStart, VZManager, Console, ConsoleProxyServer), the attach clients  *)
(* (ConsoleClient, EscapeWriter), the guest, and other CLI processes that  *)
(* touch the same session store and Unix socket.                           *)
(***************************************************************************)
EXTENDS Integers, Sequences, FiniteSets, TLC

\* ---------------------------------------------------------------- bounds
MaxPeers == 2          \* connections other processes make to the session's socket
MaxGuestWrites == 1    \* chunks the guest writes to the serial pipe
MaxStdinWrites == 1    \* writes the terminals make to their connections, in total
MaxStopCmds == 1       \* `faize stop <id>` runs from other CLI processes
MaxWriteCalls == 2     \* Write calls a terminal makes on an EscapeWriter
MaxWriteLen == 3       \* bytes handed to one Write call
MaxSpecs == 3          \* tokens in a --network spec list
MaxMounts == 2         \* --mount options of a start command
MaxURLs == 2           \* URLs the guest writes to bootstrap/open-url
MaxRequests == 2       \* HTTP requests the browser sends to relays
MaxFileWrites == 3     \* os.WriteFile calls on the bootstrap directory
MaxWaiters == 1        \* WaitForVMStop calls on the session
MaxDetachCalls == 3    \* goroutines calling Detach or Close on one console
MaxChunks == 3         \* numbered chunks the guest writes in the stream specification

Own == 1                         \* the connection of the start command's own Attach
Clients == 1..(1 + MaxPeers)
Peers == Clients \ {Own}
NoClient == 0          \* currentClient == nil
Threads == {"main", "timer"}     \* goroutines of the start process that call VZManager.Stop
StopCallers == {"mgr", "mon"}    \* callers of ConsoleProxyServer.Stop

ErrMsg == "ERROR: session already attached\n"
ErrRec == [src |-> "broker", text |-> ErrMsg, att |-> TRUE]

\* what the terminal may hand to EscapeWriter.Write in one call
StdinChunks == { <<"h", "\n">>, <<"~", ".">> }

NoRec == [status |-> "none", exit |-> ""]

VARIABLES
    \* ---- the start process: runStart and VZManager
    mainPc,        \* position of runStart
    mu,            \* holder of VZManager.mu (write lock): "none", "main", "timer"
    vms,           \* id in m.vms and m.consoles
    proxies,       \* id in m.proxies
    vmState,       \* "notStarted", "running", "stopping", "stopped"
    handlerPc,     \* the state-change goroutine registered in Create
    timer,         \* "off", "armed", "fired", "stopped"
    timedOut,      \* atomic.Bool of runStart
    mstop,         \* Threads -> position inside VZManager.Stop
    mloaded,       \* Threads -> record returned by sessions.Load inside Stop
    sess,          \* the *Session runStart holds in memory
    \* ---- session store and socket path on disk
    store,         \* <sessions>/<id>.json
    sockFile,      \* <sessions>/<id>.sock exists
    \* ---- ConsoleProxyServer
    done,          \* s.done closed
    listener,      \* "nil", "open", "closed"
    currentClient,
    readerPc, buf, \* consoleReaderLoop and the chunk it holds
    readerClient,  \* the client the reader loaded from s.currentClient
    monitorPc,     \* monitorConsoleEOF
    acceptPc, acceptConn,   \* acceptLoop and the connection Accept returned
    inputPc,       \* Clients -> handleClientInput(conn)
    stopPc,        \* StopCallers -> position inside ConsoleProxyServer.Stop
    \* ---- Console
    consoleClosed, \* Console.closed: done closed, both pipe ends closed
    pipe,          \* guest -> host pipe contents
    \* ---- connections and attach clients
    conn,          \* Clients -> the Unix socket connection of that client
    clientPc,      \* Clients -> position in VZManager.Attach / ConsoleClient.Attach
    result,        \* Clients -> what Attach returned
    esc,           \* Clients -> EscapeWriter state
    detachCh,      \* Clients -> detachCh closed
    errCh,         \* Clients -> what an io.Copy goroutine sent on errCh: "", "nil", "err"
    cloaded,       \* Clients -> record Attach loaded on its stale-socket path
    \* ---- `faize stop` in another CLI process
    otherPc, otherLoaded,
    \* ---- counters for the bounds and history
    nGuest, nTyped, nStopCmds,
    wasStopped,    \* the store held status "stopped" at some point
    shutdowns,     \* times Stop went past the already-stopped check
    \* ---- an EscapeWriter fed by a terminal, on its own
    ew,            \* its fields, the Write calls to come, what it wrote to e.w
    \* ---- network.Parse and the init script generated from its policy
    np,            \* the spec list, the policies parsed, the script
    \* ---- runStart up to manager.Create: the mounts and their validation
    st,            \* the host file system, the mount list, the loop, the outcome
    \* ---- watchOpenURL, the OAuth relays it starts, the browser's requests
    watch,         \* the watcher: bootstrap/open-url, what it did with each URL, done
    relays,        \* the relays started, in order
    reqs,          \* HTTP requests sent to relays
    \* ---- the bootstrap directory: its message files, their writers, the guest's reads
    boot,
    \* ---- VZManager.Create: the configuration it is given and the mount lists it builds
    cm,
    \* ---- one VM of the framework, its state-change channel and those who read it
    vz,
    \* ---- one Console and the goroutines that call Detach or Close on it
    con

mgrVars == <<mainPc, mu, vms, proxies, vmState, handlerPc, timer, timedOut, mstop, mloaded, sess>>
diskVars == <<store, sockFile, wasStopped>>
brokerVars == <<done, listener, currentClient, readerPc, buf, readerClient, monitorPc, acceptPc, acceptConn,
                inputPc, stopPc, shutdowns>>
consoleVars == <<consoleClosed, pipe>>
clientVars == <<conn, clientPc, result, esc, detachCh, errCh, cloaded>>
otherVars == <<otherPc, otherLoaded>>
countVars == <<nGuest, nTyped, nStopCmds>>
moreVars == <<boot, cm, vz, con>>
auxVars == <<ew, np, st, watch, relays, reqs, moreVars>>
vars == <<mgrVars, diskVars, brokerVars, consoleVars, clientVars, otherVars, countVars, auxVars>>

\* ---------------------------------------------------------------- EscapeWriter
NewEscapeWriter == [afterNewline |-> TRUE, pendingTilde |-> FALSE]

\* One pass of the loop body of EscapeWriter.Write over p[i..]; r carries the
\* writer state, the bytes forwarded to e.w, the help texts printed and the
\* detach signal.
RECURSIVE EscapeWriteFrom(_, _, _)
EscapeWriteFrom(r, p, i) ==
    IF i > Len(p) THEN r
    ELSE LET b == p[i] IN
      IF b = "\n" \/ b = "\r" THEN
          EscapeWriteFrom([r EXCEPT !.fwd = IF r.pendingTilde THEN @ \o <<"~", b>> ELSE @ \o <<b>>,
                                    !.pendingTilde = FALSE,
                                    !.afterNewline = TRUE], p, i + 1)
      ELSE IF r.afterNewline /\ b = "~" THEN
          EscapeWriteFrom([r EXCEPT !.pendingTilde = TRUE, !.afterNewline = FALSE], p, i + 1)
      ELSE IF r.pendingTilde THEN
          IF b = "." THEN [r EXCEPT !.pendingTilde = FALSE, !.detach = TRUE]
          ELSE IF b = "~" THEN
              EscapeWriteFrom([r EXCEPT !.pendingTilde = FALSE, !.afterNewline = FALSE,
                                        !.fwd = @ \o <<"~">>], p, i + 1)
          ELSE IF b = "?" THEN
              EscapeWriteFrom([r EXCEPT !.pendingTilde = FALSE, !.afterNewline = FALSE,
                                        !.help = @ + 1], p, i + 1)
          ELSE
              EscapeWriteFrom([r EXCEPT !.pendingTilde = FALSE, !.afterNewline = FALSE,
                                        !.fwd = @ \o <<"~", b>>], p, i + 1)
      ELSE
          EscapeWriteFrom([r EXCEPT !.fwd = @ \o <<b>>, !.afterNewline = FALSE], p, i + 1)

\* EscapeWriter.Write that forgets e.afterNewline between calls: every call
\* begins as if at the start of a line
EscapeWriter_Write_LineStart(e, p) ==
    EscapeWriteFrom([afterNewline |-> TRUE, pendingTilde |-> e.pendingTilde,
                     fwd |-> <<>>, help |-> 0, detach |-> FALSE], p, 1)

\* EscapeWriter.Write whose newline branch clears e.pendingTilde without
\* writing the `~` it holds
EscapeWriter_Write_DropsHeld(e, p) ==
    EscapeWriteFrom([afterNewline |-> e.afterNewline,
                     pendingTilde |-> e.pendingTilde /\ p[1] \notin {"\n", "\r"},
                     fwd |-> <<>>, help |-> 0, detach |-> FALSE], p, 1)

EscapeWriter_Write(e, p) ==
    EscapeWriteFrom([afterNewline |-> e.afterNewline, pendingTilde |-> e.pendingTilde,
                     fwd |-> <<>>, help |-> 0, detach |-> FALSE], p, 1)

\* ---------------------------------------------------------------- helpers
NewConn == [cli |-> "none", srv |-> "none", out |-> <<>>, c2s |-> <<>>, rd |-> <<>>, got |-> <<>>]

\* sync.WaitGroup counter of the proxy: goroutines started and not yet Done
TaskRunning(pc) == pc \notin {"none", "exited"}
wg == (IF TaskRunning(readerPc) THEN 1 ELSE 0)
    + (IF TaskRunning(monitorPc) THEN 1 ELSE 0)
    + (IF TaskRunning(acceptPc) THEN 1 ELSE 0)
    + Cardinality({c \in Clients : TaskRunning(inputPc[c])})

\* Store.Save: the whole record is overwritten
Save(rec) ==
    /\ store' = rec
    /\ wasStopped' = (wasStopped \/ rec.status = "stopped")

\* ---------------------------------------------------------------- initial state
SessionInit ==
    /\ mainPc = "create" /\ mu = "none" /\ vms = FALSE /\ proxies = FALSE
    /\ vmState = "notStarted" /\ handlerPc = "idle" /\ timer = "off" /\ timedOut = FALSE
    /\ mstop = [t \in Threads |-> "idle"] /\ mloaded = [t \in Threads |-> NoRec]
    /\ sess = NoRec
    /\ store = NoRec /\ sockFile = FALSE /\ wasStopped = FALSE
    /\ done = FALSE /\ listener = "nil" /\ currentClient = NoClient
    /\ readerPc = "none" /\ buf = <<>> /\ readerClient = NoClient /\ monitorPc = "none"
    /\ acceptPc = "none" /\ acceptConn = NoClient
    /\ inputPc = [c \in Clients |-> "none"]
    /\ stopPc = [k \in StopCallers |-> "idle"] /\ shutdowns = 0
    /\ consoleClosed = FALSE /\ pipe = <<>>
    /\ conn = [c \in Clients |-> NewConn]
    /\ clientPc = [c \in Clients |-> "idle"]
    /\ result = [c \in Clients |-> ""]
    /\ esc = [c \in Clients |-> NewEscapeWriter]
    /\ detachCh = [c \in Clients |-> FALSE]
    /\ errCh = [c \in Clients |-> ""]
    /\ cloaded = [c \in Clients |-> NoRec]
    /\ otherPc = "idle" /\ otherLoaded = NoRec
    /\ nGuest = 0 /\ nTyped = 0 /\ nStopCmds = 0

\* the components that are modelled on their own, before they are given input
NoEscapeWriter == [state |-> NewEscapeWriter, calls |-> <<>>, input |-> <<>>, fwd |-> <<>>,
                   help |-> 0, closes |-> 0, panicked |-> FALSE]

NoParse == [pc |-> "idle", specs |-> <<>>]

NoStart == [pc |-> "idle"]
NoWatch == [pc |-> "idle"]
NoRequest == [relay |-> 0, state |-> "new"]
RelayIdle == watch = NoWatch /\ relays = <<>> /\ reqs = <<>>
NoBoot == [pc |-> "idle"]
NoCreate == [pc |-> "idle"]
NoVM == [pc |-> "idle"]
NoConsole == [pc |-> "idle"]
MoreIdle == boot = NoBoot /\ cm = NoCreate /\ vz = NoVM /\ con = NoConsole

Init ==
    /\ SessionInit
    /\ ew = NoEscapeWriter
    /\ np = NoParse
    /\ st = NoStart
    /\ RelayIdle
    /\ MoreIdle

\* ---------------------------------------------------------------- ConsoleProxyServer
\* NewConsoleProxyServer followed by Start: the socket path is cleared, the
\* listener bound (which creates the socket file) and the three goroutines
\* started.
ConsoleProxyServer_Start ==
    /\ listener' = "open"
    /\ sockFile' = TRUE
    /\ readerPc' = "check"
    /\ monitorPc' = "await"
    /\ acceptPc' = "accept"

\* consoleReaderLoop: select on s.done, default falls through to the read
consoleReaderLoop_Select ==
    /\ readerPc = "check"
    /\ readerPc' = IF done THEN "exited" ELSE "read"
    /\ UNCHANGED <<mgrVars, diskVars, consoleVars, clientVars, otherVars, countVars,
                   done, listener, currentClient, buf, readerClient, monitorPc, acceptPc, acceptConn,
                   inputPc, stopPc, shutdowns>>
    /\ UNCHANGED auxVars

\* a Read that leaves in the pipe what it returned
consoleReaderLoop_Read_KeepsPipe ==
    /\ readerPc = "read"
    /\ \/ /\ consoleClosed
          /\ readerPc' = "exited"
          /\ UNCHANGED <<buf, pipe>>
       \/ /\ ~consoleClosed
          /\ pipe # <<>>
          /\ buf' = pipe
          /\ UNCHANGED pipe
          /\ readerPc' = "deliver"
    /\ UNCHANGED <<mgrVars, diskVars, clientVars, otherVars, countVars, consoleClosed,
                   done, listener, currentClient, readerClient, monitorPc, acceptPc, acceptConn,
                   inputPc, stopPc, shutdowns>>
    /\ UNCHANGED auxVars

\* s.console.read.Read(buf): blocks until the pipe has data or is closed
consoleReaderLoop_Read ==
    /\ readerPc = "read"
    /\ \/ /\ consoleClosed
          /\ readerPc' = "exited"
          /\ UNCHANGED <<buf, pipe>>
       \/ /\ ~consoleClosed
          /\ pipe # <<>>
          /\ buf' = pipe
          /\ pipe' = <<>>
          /\ readerPc' = "deliver"
    /\ UNCHANGED <<mgrVars, diskVars, clientVars, otherVars, countVars, consoleClosed,
                   done, listener, currentClient, readerClient, monitorPc, acceptPc, acceptConn,
                   inputPc, stopPc, shutdowns>>
    /\ UNCHANGED auxVars

\* client := s.currentClient under clientMu.RLock
consoleReaderLoop_LoadClient ==
    /\ readerPc = "deliver"
    /\ readerClient' = currentClient
    /\ readerPc' = "write"
    /\ UNCHANGED <<mgrVars, diskVars, consoleVars, clientVars, otherVars, countVars,
                   done, listener, currentClient, buf, monitorPc, acceptPc, acceptConn,
                   inputPc, stopPc, shutdowns>>
    /\ UNCHANGED auxVars

\* client.Write(buf[:n]) if client is non-nil; a write error is only logged;
\* without a client the chunk is dropped
consoleReaderLoop_Write ==
    /\ readerPc = "write"
    /\ conn' = IF readerClient # NoClient
                  /\ conn[readerClient].srv = "open" /\ conn[readerClient].cli = "open"
               THEN [conn EXCEPT ![readerClient].out = @ \o buf]
               ELSE conn
    /\ buf' = <<>>
    /\ readerClient' = NoClient
    /\ readerPc' = "check"
    /\ UNCHANGED <<mgrVars, diskVars, consoleVars, otherVars, countVars,
                   clientPc, result, esc, detachCh, errCh, cloaded,
                   done, listener, currentClient, monitorPc, acceptPc, acceptConn,
                   inputPc, stopPc, shutdowns>>
    /\ UNCHANGED auxVars

\* s.listener.Accept() returns a connection waiting in the backlog
acceptLoop_Accept(c) ==
    /\ acceptPc = "accept"
    /\ listener = "open"
    /\ conn[c].cli # "none" /\ conn[c].srv = "none"
    /\ conn' = [conn EXCEPT ![c].srv = "held"]
    /\ acceptConn' = c
    /\ acceptPc' = "check"
    /\ UNCHANGED <<mgrVars, diskVars, consoleVars, otherVars, countVars,
                   clientPc, result, esc, detachCh, errCh, cloaded,
                   done, listener, currentClient, readerPc, buf, readerClient, monitorPc,
                   inputPc, stopPc, shutdowns>>
    /\ UNCHANGED auxVars

\* Accept fails on the closed listener: return when s.done is closed, else retry
acceptLoop_AcceptError ==
    /\ acceptPc = "accept"
    /\ listener = "closed"
    /\ done
    /\ acceptPc' = "exited"
    /\ UNCHANGED <<mgrVars, diskVars, consoleVars, clientVars, otherVars, countVars,
                   done, listener, currentClient, readerPc, buf, readerClient, monitorPc, acceptConn,
                   inputPc, stopPc, shutdowns>>
    /\ UNCHANGED auxVars

\* acceptLoop_Reject without its `continue`: after the error line and the
\* close, the loop falls through and publishes the connection
acceptLoop_Reject_FallsThrough ==
    /\ acceptPc = "check"
    /\ currentClient # NoClient
    /\ conn' = [conn EXCEPT ![acceptConn].out = Append(@, ErrRec),
                            ![acceptConn].srv = "closed"]
    /\ currentClient' = acceptConn
    /\ inputPc' = [inputPc EXCEPT ![acceptConn] = "read"]
    /\ acceptConn' = NoClient
    /\ acceptPc' = "accept"
    /\ UNCHANGED <<mgrVars, diskVars, consoleVars, otherVars, countVars,
                   clientPc, result, esc, detachCh, errCh, cloaded,
                   done, listener, readerPc, buf, readerClient, monitorPc,
                   stopPc, shutdowns>>
    /\ UNCHANGED auxVars

\* under clientMu: a client is present, so write the error line and close
acceptLoop_Reject ==
    /\ acceptPc = "check"
    /\ currentClient # NoClient
    /\ conn' = [conn EXCEPT ![acceptConn].out = Append(@, ErrRec),
                            ![acceptConn].srv = "closed"]
    /\ acceptConn' = NoClient
    /\ acceptPc' = "accept"
    /\ UNCHANGED <<mgrVars, diskVars, consoleVars, otherVars, countVars,
                   clientPc, result, esc, detachCh, errCh, cloaded,
                   done, listener, currentClient, readerPc, buf, readerClient, monitorPc,
                   inputPc, stopPc, shutdowns>>
    /\ UNCHANGED auxVars

\* acceptLoop_Publish that also starts a reader of its own for the new client,
\* as the in-memory attach did: it takes what the guest has written
acceptLoop_Publish_OwnReader ==
    /\ acceptPc = "check"
    /\ currentClient = NoClient
    /\ currentClient' = acceptConn
    /\ conn' = [conn EXCEPT ![acceptConn].srv = "open", ![acceptConn].out = @ \o pipe]
    /\ pipe' = <<>>
    /\ inputPc' = [inputPc EXCEPT ![acceptConn] = "read"]
    /\ acceptConn' = NoClient
    /\ acceptPc' = "accept"
    /\ UNCHANGED <<mgrVars, diskVars, consoleClosed, otherVars, countVars,
                   clientPc, result, esc, detachCh, errCh, cloaded,
                   done, listener, readerPc, buf, readerClient, monitorPc, stopPc, shutdowns>>
    /\ UNCHANGED auxVars

\* under clientMu: the slot is free, publish the connection and start its
\* input goroutine
acceptLoop_Publish ==
    /\ acceptPc = "check"
    /\ currentClient = NoClient
    /\ currentClient' = acceptConn
    /\ conn' = [conn EXCEPT ![acceptConn].srv = "open"]
    /\ inputPc' = [inputPc EXCEPT ![acceptConn] = "read"]
    /\ acceptConn' = NoClient
    /\ acceptPc' = "accept"
    /\ UNCHANGED <<mgrVars, diskVars, consoleVars, otherVars, countVars,
                   clientPc, result, esc, detachCh, errCh, cloaded,
                   done, listener, readerPc, buf, readerClient, monitorPc, stopPc, shutdowns>>
    /\ UNCHANGED auxVars

\* io.Copy(s.console.write, conn): conn.Read returns what the client sent
handleClientInput_Read(c) ==
    /\ inputPc[c] = "read"
    /\ conn[c].srv = "open"
    /\ conn[c].c2s # <<>>
    /\ conn' = [conn EXCEPT ![c].rd = conn[c].c2s, ![c].c2s = <<>>]
    /\ inputPc' = [inputPc EXCEPT ![c] = "write"]
    /\ UNCHANGED <<mgrVars, diskVars, consoleVars, otherVars, countVars,
                   clientPc, result, esc, detachCh, errCh, cloaded,
                   done, listener, currentClient, readerPc, buf, readerClient, monitorPc,
                   acceptPc, acceptConn, stopPc, shutdowns>>
    /\ UNCHANGED auxVars

\* io.Copy: the bytes read are written to the console; on the closed console
\* the write fails and io.Copy returns
handleClientInput_Write(c) ==
    /\ inputPc[c] = "write"
    /\ IF consoleClosed
       THEN /\ conn' = [conn EXCEPT ![c].rd = <<>>]
            /\ inputPc' = [inputPc EXCEPT ![c] = "clear"]
       ELSE /\ conn' = [conn EXCEPT ![c].got = @ \o conn[c].rd, ![c].rd = <<>>]
            /\ inputPc' = [inputPc EXCEPT ![c] = "read"]
    /\ UNCHANGED <<mgrVars, diskVars, consoleVars, otherVars, countVars,
                   clientPc, result, esc, detachCh, errCh, cloaded,
                   done, listener, currentClient, readerPc, buf, readerClient, monitorPc,
                   acceptPc, acceptConn, stopPc, shutdowns>>
    /\ UNCHANGED auxVars

\* an io.Copy that does not return when the client has closed its end
handleClientInput_CopyReturns_NoEOF(c) ==
    /\ inputPc[c] = "read"
    /\ conn[c].srv = "closed"
    /\ inputPc' = [inputPc EXCEPT ![c] = "clear"]
    /\ UNCHANGED <<mgrVars, diskVars, consoleVars, clientVars, otherVars, countVars,
                   done, listener, currentClient, readerPc, buf, readerClient, monitorPc, acceptPc,
                   acceptConn, stopPc, shutdowns>>
    /\ UNCHANGED auxVars

\* io.Copy returns from conn.Read: the connection was closed under it, or the
\* client closed its end and all it sent has been read (EOF)
handleClientInput_CopyReturns(c) ==
    /\ inputPc[c] = "read"
    /\ \/ conn[c].srv = "closed"
       \/ conn[c].c2s = <<>> /\ conn[c].cli = "closed"
    /\ inputPc' = [inputPc EXCEPT ![c] = "clear"]
    /\ UNCHANGED <<mgrVars, diskVars, consoleVars, clientVars, otherVars, countVars,
                   done, listener, currentClient, readerPc, buf, readerClient, monitorPc, acceptPc,
                   acceptConn, stopPc, shutdowns>>
    /\ UNCHANGED auxVars

\* the deferred function, under clientMu: clear the slot if it still holds conn
handleClientInput_ClearClient(c) ==
    /\ inputPc[c] = "clear"
    /\ currentClient' = IF currentClient = c THEN NoClient ELSE currentClient
    /\ inputPc' = [inputPc EXCEPT ![c] = "close"]
    /\ UNCHANGED <<mgrVars, diskVars, consoleVars, clientVars, otherVars, countVars,
                   done, listener, readerPc, buf, readerClient, monitorPc, acceptPc,
                   acceptConn, stopPc, shutdowns>>
    /\ UNCHANGED auxVars

\* the deferred function, after the unlock: conn.Close(); then wg.Done
handleClientInput_Close(c) ==
    /\ inputPc[c] = "close"
    /\ conn' = [conn EXCEPT ![c].srv = "closed"]
    /\ inputPc' = [inputPc EXCEPT ![c] = "exited"]
    /\ UNCHANGED <<mgrVars, diskVars, consoleVars, otherVars, countVars,
                   clientPc, result, esc, detachCh, errCh, cloaded,
                   done, listener, currentClient, readerPc, buf, readerClient, monitorPc,
                   acceptPc, acceptConn, stopPc, shutdowns>>
    /\ UNCHANGED auxVars

\* monitorConsoleEOF: <-s.console.done, then s.Stop()
monitorConsoleEOF_Wake ==
    /\ monitorPc = "await"
    /\ consoleClosed
    /\ monitorPc' = "stop"
    /\ stopPc' = [stopPc EXCEPT !["mon"] = "enter"]
    /\ UNCHANGED <<mgrVars, diskVars, consoleVars, clientVars, otherVars, countVars,
                   done, listener, currentClient, readerPc, buf, readerClient, acceptPc, acceptConn,
                   inputPc, shutdowns>>
    /\ UNCHANGED auxVars

\* s.Stop() returned; the deferred wg.Done runs
monitorConsoleEOF_Return ==
    /\ monitorPc = "stop"
    /\ stopPc["mon"] = "returned"
    /\ monitorPc' = "exited"
    /\ UNCHANGED <<mgrVars, diskVars, consoleVars, clientVars, otherVars, countVars,
                   done, listener, currentClient, readerPc, buf, readerClient, acceptPc, acceptConn,
                   inputPc, stopPc, shutdowns>>
    /\ UNCHANGED auxVars

\* Stop, already stopped: s.done is closed, return nil at once
Stop_AlreadyStopped(k) ==
    /\ stopPc[k] = "enter"
    /\ done
    /\ stopPc' = [stopPc EXCEPT ![k] = "returned"]
    /\ UNCHANGED <<mgrVars, diskVars, consoleVars, clientVars, otherVars, countVars,
                   done, listener, currentClient, readerPc, buf, readerClient, monitorPc, acceptPc,
                   acceptConn, inputPc, shutdowns>>
    /\ UNCHANGED auxVars

\* Stop, first caller, the section under s.mu: close(s.done), close the
\* listener (a Unix listener made by net.Listen unlinks its socket file on
\* Close, and connections still in its backlog are dropped), close and clear
\* the current client.
Stop_Shutdown(k) ==
    /\ stopPc[k] = "enter"
    /\ ~done
    /\ done' = TRUE
    /\ listener' = "closed"
    /\ sockFile' = FALSE
    /\ conn' = [c \in Clients |->
                  IF c = currentClient \/ (conn[c].cli # "none" /\ conn[c].srv = "none")
                  THEN [conn[c] EXCEPT !.srv = "closed"] ELSE conn[c]]
    /\ currentClient' = NoClient
    /\ shutdowns' = shutdowns + 1
    /\ stopPc' = [stopPc EXCEPT ![k] = "wait"]
    /\ UNCHANGED <<mgrVars, store, wasStopped, consoleVars, otherVars, countVars,
                   clientPc, result, esc, detachCh, errCh, cloaded,
                   readerPc, buf, readerClient, monitorPc, acceptPc, acceptConn, inputPc>>
    /\ UNCHANGED auxVars

\* Stop, first caller: s.wg.Wait() returns, os.Remove(s.socketPath), return
Stop_WaitAndRemove(k) ==
    /\ stopPc[k] = "wait"
    /\ wg = 0
    /\ sockFile' = FALSE
    /\ stopPc' = [stopPc EXCEPT ![k] = "returned"]
    /\ UNCHANGED <<mgrVars, store, wasStopped, consoleVars, clientVars, otherVars, countVars,
                   done, listener, currentClient, readerPc, buf, readerClient, monitorPc, acceptPc,
                   acceptConn, inputPc, shutdowns>>
    /\ UNCHANGED auxVars

\* ---------------------------------------------------------------- guest and Console
\* the guest writes a chunk to the serial port; att records, for the reading
\* of the properties only, whether a client was attached at that moment
GuestWrite ==
    /\ vmState \in {"running", "stopping"}
    /\ ~consoleClosed
    /\ nGuest < MaxGuestWrites
    /\ pipe' = Append(pipe, [src |-> "guest", text |-> "out", att |-> currentClient # NoClient])
    /\ nGuest' = nGuest + 1
    /\ UNCHANGED <<mgrVars, diskVars, brokerVars, clientVars, otherVars, consoleClosed,
                   nTyped, nStopCmds>>
    /\ UNCHANGED auxVars

\* the guest writes its next chunk to the serial pipe; the chunks are numbered
\* in the order of writing
Guest_WriteChunk ==
    /\ vmState \in {"running", "stopping"}
    /\ ~consoleClosed
    /\ nGuest < MaxChunks
    /\ pipe' = Append(pipe, [src |-> "guest", text |-> nGuest + 1, att |-> currentClient # NoClient])
    /\ nGuest' = nGuest + 1
    /\ UNCHANGED <<mgrVars, diskVars, brokerVars, clientVars, otherVars, consoleClosed,
                   nTyped, nStopCmds>>
    /\ UNCHANGED auxVars

\* the guest powers off (by itself, or after RequestStop)
GuestPowerOff ==
    /\ vmState \in {"running", "stopping"}
    /\ vmState' = "stopped"
    /\ UNCHANGED <<mainPc, mu, vms, proxies, handlerPc, timer, timedOut, mstop, mloaded, sess,
                   diskVars, brokerVars, consoleVars, clientVars, otherVars, countVars>>
    /\ UNCHANGED auxVars

\* state-change goroutine of Create: on Stopped, console := m.consoles[id]
\* under m.mu.RLock
StateHandler_Lookup ==
    /\ handlerPc = "idle"
    /\ vmState = "stopped"
    /\ mu = "none"
    /\ handlerPc' = IF vms THEN "detach" ELSE "done"
    /\ UNCHANGED <<mainPc, mu, vms, proxies, vmState, timer, timedOut, mstop, mloaded, sess,
                   diskVars, brokerVars, consoleVars, clientVars, otherVars, countVars>>
    /\ UNCHANGED auxVars

\* Console.Detach: close(c.done), close both pipe ends
Console_Detach ==
    /\ handlerPc = "detach"
    /\ consoleClosed' = TRUE
    /\ handlerPc' = "done"
    /\ UNCHANGED <<mainPc, mu, vms, proxies, vmState, timer, timedOut, mstop, mloaded, sess,
                   diskVars, brokerVars, pipe, clientVars, otherVars, countVars>>
    /\ UNCHANGED auxVars

\* ---------------------------------------------------------------- VZManager.Attach, ConsoleClient.Attach
\* os.Stat(socketPath), retried for 500 ms: the socket is there, or the
\* console is reported as not found
Attach_Stat(c) ==
    /\ clientPc[c] = "stat"
    /\ IF sockFile
       THEN /\ clientPc' = [clientPc EXCEPT ![c] = "dial"]
            /\ UNCHANGED result
       ELSE /\ clientPc' = [clientPc EXCEPT ![c] = "done"]
            /\ result' = [result EXCEPT ![c] = "notfound"]
    /\ UNCHANGED <<mgrVars, diskVars, brokerVars, consoleVars, otherVars, countVars,
                   conn, esc, detachCh, errCh, cloaded>>
    /\ UNCHANGED auxVars

\* NewConsoleClient: net.Dial succeeds while the listener is open
Attach_Dial(c) ==
    /\ clientPc[c] = "dial"
    /\ listener = "open"
    /\ conn' = [conn EXCEPT ![c].cli = "open"]
    /\ clientPc' = [clientPc EXCEPT ![c] = "initread"]
    /\ UNCHANGED <<mgrVars, diskVars, brokerVars, consoleVars, otherVars, countVars,
                   result, esc, detachCh, errCh, cloaded>>
    /\ UNCHANGED auxVars

\* the dial fails: remove the stale socket file and load the session
Attach_DialFails(c) ==
    /\ clientPc[c] = "dial"
    /\ listener # "open"
    /\ sockFile' = FALSE
    /\ cloaded' = [cloaded EXCEPT ![c] = store]
    /\ IF store.status = "none"
       THEN /\ clientPc' = [clientPc EXCEPT ![c] = "done"]
            /\ result' = [result EXCEPT ![c] = "stale"]
       ELSE /\ clientPc' = [clientPc EXCEPT ![c] = "staleSave"]
            /\ UNCHANGED result
    /\ UNCHANGED <<mgrVars, store, wasStopped, brokerVars, consoleVars, otherVars, countVars,
                   conn, esc, detachCh, errCh>>
    /\ UNCHANGED auxVars

\* ... mark it stopped, save it, return the "no longer running" error
Attach_StaleSave(c) ==
    /\ clientPc[c] = "staleSave"
    /\ Save([cloaded[c] EXCEPT !.status = "stopped"])
    /\ clientPc' = [clientPc EXCEPT ![c] = "done"]
    /\ result' = [result EXCEPT ![c] = "stale"]
    /\ UNCHANGED <<mgrVars, sockFile, brokerVars, consoleVars, otherVars, countVars,
                   conn, esc, detachCh, errCh, cloaded>>
    /\ UNCHANGED auxVars

\* the first read with its 100 ms deadline: an ERROR: line is returned as an
\* error (and the deferred client.Close runs); other data, a timeout or EOF
\* lets the attach proceed
ConsoleClient_Attach_InitialRead(c) ==
    /\ clientPc[c] = "initread"
    /\ IF conn[c].out # <<>> /\ Head(conn[c].out) = ErrRec
       THEN /\ result' = [result EXCEPT ![c] = "rejected"]
            /\ conn' = [conn EXCEPT ![c].cli = "closed"]
            /\ clientPc' = [clientPc EXCEPT ![c] = "done"]
       ELSE /\ clientPc' = [clientPc EXCEPT ![c] = "attached"]
            /\ UNCHANGED <<result, conn>>
    /\ UNCHANGED <<mgrVars, diskVars, brokerVars, consoleVars, otherVars, countVars,
                   esc, detachCh, errCh, cloaded>>
    /\ UNCHANGED auxVars

\* io.Copy(escapeWriter, stdin): one Write call of the terminal; the bytes
\* EscapeWriter forwards go to the socket, a failing socket write ends the copy
ConsoleClient_Attach_Stdin(c, p) ==
    /\ clientPc[c] = "attached"
    /\ ~detachCh[c] /\ errCh[c] = ""
    /\ nTyped < MaxStdinWrites
    /\ nTyped' = nTyped + 1
    /\ LET r == EscapeWriter_Write(esc[c], p) IN
       IF r.fwd # <<>> /\ conn[c].srv = "closed"
       THEN /\ errCh' = [errCh EXCEPT ![c] = "err"]
            /\ UNCHANGED <<esc, detachCh, conn>>
       ELSE /\ esc' = [esc EXCEPT ![c] = [afterNewline |-> r.afterNewline,
                                         pendingTilde |-> r.pendingTilde]]
            /\ detachCh' = [detachCh EXCEPT ![c] = r.detach]
            /\ conn' = [conn EXCEPT ![c].c2s = @ \o r.fwd]
            /\ UNCHANGED errCh
    /\ UNCHANGED <<mgrVars, diskVars, brokerVars, consoleVars, otherVars,
                   clientPc, result, cloaded, nGuest, nStopCmds>>
    /\ UNCHANGED auxVars

\* io.Copy(stdout, c.conn) sees EOF: the broker closed the connection
ConsoleClient_Attach_SocketEOF(c) ==
    /\ clientPc[c] = "attached"
    /\ conn[c].srv = "closed"
    /\ errCh[c] = ""
    /\ errCh' = [errCh EXCEPT ![c] = "nil"]
    /\ UNCHANGED <<mgrVars, diskVars, brokerVars, consoleVars, otherVars, countVars,
                   conn, clientPc, result, esc, detachCh, cloaded>>
    /\ UNCHANGED auxVars

\* select: the detach channel is closed; return ErrUserDetach, client.Close
ConsoleClient_Attach_Detach(c) ==
    /\ clientPc[c] = "attached"
    /\ detachCh[c]
    /\ result' = [result EXCEPT ![c] = "detach"]
    /\ conn' = [conn EXCEPT ![c].cli = "closed"]
    /\ clientPc' = [clientPc EXCEPT ![c] = "done"]
    /\ UNCHANGED <<mgrVars, diskVars, brokerVars, consoleVars, otherVars, countVars,
                   esc, detachCh, errCh, cloaded>>
    /\ UNCHANGED auxVars

\* select: errCh delivers; return that error (nil on EOF), client.Close
ConsoleClient_Attach_Err(c) ==
    /\ clientPc[c] = "attached"
    /\ errCh[c] # ""
    /\ result' = [result EXCEPT ![c] = errCh[c]]
    /\ conn' = [conn EXCEPT ![c].cli = "closed"]
    /\ clientPc' = [clientPc EXCEPT ![c] = "done"]
    /\ UNCHANGED <<mgrVars, diskVars, brokerVars, consoleVars, otherVars, countVars,
                   esc, detachCh, errCh, cloaded>>
    /\ UNCHANGED auxVars

\* ---------------------------------------------------------------- other processes on the socket
\* another process (faize attach, or any program) connects to the socket
Peer_Dial(c) ==
    /\ c \in Peers
    /\ conn[c].cli = "none"
    /\ listener = "open"
    /\ conn' = [conn EXCEPT ![c].cli = "open"]
    /\ UNCHANGED <<mgrVars, diskVars, brokerVars, consoleVars, otherVars, countVars,
                   clientPc, result, esc, detachCh, errCh, cloaded>>
    /\ UNCHANGED auxVars

\* it sends a byte of terminal input
Peer_Send(c) ==
    /\ c \in Peers
    /\ conn[c].cli = "open"
    /\ conn[c].srv # "closed"
    /\ nTyped < MaxStdinWrites
    /\ nTyped' = nTyped + 1
    /\ conn' = [conn EXCEPT ![c].c2s = Append(@, "h")]
    /\ UNCHANGED <<mgrVars, diskVars, brokerVars, consoleVars, otherVars,
                   clientPc, result, esc, detachCh, errCh, cloaded, nGuest, nStopCmds>>
    /\ UNCHANGED auxVars

\* it closes its end (detach, exit, or the process is killed)
Peer_Close(c) ==
    /\ c \in Peers
    /\ conn[c].cli = "open"
    /\ conn' = [conn EXCEPT ![c].cli = "closed"]
    /\ UNCHANGED <<mgrVars, diskVars, brokerVars, consoleVars, otherVars, countVars,
                   clientPc, result, esc, detachCh, errCh, cloaded>>
    /\ UNCHANGED auxVars

\* ---------------------------------------------------------------- VZManager.Create, Start
\* Create up to the proxy: the VM and console are stored in the maps, the
\* proxy is created and started and stored in m.proxies
VZManager_Create ==
    /\ mainPc = "create"
    /\ vms' = TRUE
    /\ proxies' = TRUE
    /\ ConsoleProxyServer_Start
    /\ sess' = [status |-> "created", exit |-> ""]
    /\ mainPc' = "createSave"
    /\ UNCHANGED <<mu, vmState, handlerPc, timer, timedOut, mstop, mloaded,
                   store, wasStopped, consoleVars, clientVars, otherVars, countVars,
                   done, currentClient, buf, readerClient, acceptConn, inputPc, stopPc, shutdowns>>
    /\ UNCHANGED auxVars

\* Create when NewConsoleProxyServer or proxy.Start fails: the failure is
\* logged and Create carries on without a proxy
VZManager_Create_NoProxy ==
    /\ mainPc = "create"
    /\ vms' = TRUE
    /\ sess' = [status |-> "created", exit |-> ""]
    /\ mainPc' = "createSave"
    /\ UNCHANGED <<mu, proxies, vmState, handlerPc, timer, timedOut, mstop, mloaded,
                   diskVars, brokerVars, consoleVars, clientVars, otherVars, countVars>>
    /\ UNCHANGED auxVars

\* Create: m.sessions.Save(sess) with status "created"
VZManager_Create_Save ==
    /\ mainPc = "createSave"
    /\ Save(sess)
    /\ mainPc' = "startVM"
    /\ UNCHANGED <<mu, vms, proxies, vmState, handlerPc, timer, timedOut, mstop, mloaded, sess,
                   sockFile, brokerVars, consoleVars, clientVars, otherVars, countVars>>
    /\ UNCHANGED auxVars

\* Start: validation and vm.Start() succeed
VZManager_Start ==
    /\ mainPc = "startVM"
    /\ vmState' = "running"
    /\ mainPc' = "startSave"
    /\ UNCHANGED <<mu, vms, proxies, handlerPc, timer, timedOut, mstop, mloaded, sess,
                   diskVars, brokerVars, consoleVars, clientVars, otherVars, countVars>>
    /\ UNCHANGED auxVars

\* Start: validation or vm.Start() fails; runStart returns the error before
\* any deferred stop is registered
VZManager_Start_Fails ==
    /\ mainPc = "startVM"
    /\ mainPc' = "returned"
    /\ UNCHANGED <<mu, vms, proxies, vmState, handlerPc, timer, timedOut, mstop, mloaded, sess,
                   diskVars, brokerVars, consoleVars, clientVars, otherVars, countVars>>
    /\ UNCHANGED auxVars

\* Start: sess.Status = "running", Save; runStart then arms the timeout timer
VZManager_Start_Save ==
    /\ mainPc = "startSave"
    /\ sess' = [sess EXCEPT !.status = "running"]
    /\ Save(sess')
    /\ timer' = "armed"
    /\ mainPc' = "attach"
    /\ UNCHANGED <<mu, vms, proxies, vmState, handlerPc, timedOut, mstop, mloaded,
                   sockFile, brokerVars, consoleVars, clientVars, otherVars, countVars>>
    /\ UNCHANGED auxVars

\* ---------------------------------------------------------------- runStart
\* the time.AfterFunc callback: timedOut.Store(true), manager.Stop(sess.ID)
runStart_TimerFires ==
    /\ timer = "armed"
    /\ timer' = "fired"
    /\ timedOut' = TRUE
    /\ mstop' = [mstop EXCEPT !["timer"] = "lock"]
    /\ UNCHANGED <<mainPc, mu, vms, proxies, vmState, handlerPc, mloaded, sess,
                   diskVars, brokerVars, consoleVars, clientVars, otherVars, countVars>>
    /\ UNCHANGED auxVars

\* manager.Attach(sess.ID) is entered
runStart_Attach ==
    /\ mainPc = "attach"
    /\ clientPc' = [clientPc EXCEPT ![Own] = "stat"]
    /\ mainPc' = "attaching"
    /\ UNCHANGED <<mu, vms, proxies, vmState, handlerPc, timer, timedOut, mstop, mloaded, sess,
                   diskVars, brokerVars, consoleVars, otherVars, countVars,
                   conn, result, esc, detachCh, errCh, cloaded>>
    /\ UNCHANGED auxVars

\* manager.Attach returned: any error but ErrUserDetach makes runStart return
\* it without persisting an exit reason
runStart_AttachReturned ==
    /\ mainPc = "attaching"
    /\ clientPc[Own] = "done"
    /\ mainPc' = IF result[Own] \in {"nil", "detach"} THEN "persist" ELSE "deferred"
    /\ UNCHANGED <<mu, vms, proxies, vmState, handlerPc, timer, timedOut, mstop, mloaded, sess,
                   diskVars, brokerVars, consoleVars, clientVars, otherVars, countVars>>
    /\ UNCHANGED auxVars

\* the exit reason is chosen and the stopped record saved
ExitReason == IF timedOut THEN "timeout"
              ELSE IF result[Own] = "detach" THEN "detach" ELSE "normal"

runStart_Persist ==
    /\ mainPc = "persist"
    /\ sess' = [status |-> "stopped", exit |-> ExitReason]
    /\ Save(sess')
    /\ mainPc' = "deferred"
    /\ UNCHANGED <<mu, vms, proxies, vmState, handlerPc, timer, timedOut, mstop, mloaded,
                   sockFile, brokerVars, consoleVars, clientVars, otherVars, countVars>>
    /\ UNCHANGED auxVars

\* runStart returns: the deferred manager.Stop(sess.ID) is entered
runStart_DeferredStop ==
    /\ mainPc = "deferred"
    /\ mstop' = [mstop EXCEPT !["main"] = "lock"]
    /\ mainPc' = "stopping"
    /\ UNCHANGED <<mu, vms, proxies, vmState, handlerPc, timer, timedOut, mloaded, sess,
                   diskVars, brokerVars, consoleVars, clientVars, otherVars, countVars>>
    /\ UNCHANGED auxVars

\* the deferred Stop returned; the deferred timer.Stop() runs and the command ends
runStart_Return ==
    /\ mainPc = "stopping"
    /\ mstop["main"] = "returned"
    /\ timer' = IF timer = "armed" THEN "stopped" ELSE timer
    /\ mainPc' = "returned"
    /\ UNCHANGED <<mu, vms, proxies, vmState, handlerPc, timedOut, mstop, mloaded, sess,
                   diskVars, brokerVars, consoleVars, clientVars, otherVars, countVars>>
    /\ UNCHANGED auxVars

\* ---------------------------------------------------------------- VZManager.Stop
\* m.mu.Lock(); the id is not in m.vms: unlock and go to the store
VZManager_Stop_NotFound(t) ==
    /\ mstop[t] = "lock"
    /\ mu = "none"
    /\ ~vms
    /\ mstop' = [mstop EXCEPT ![t] = "load"]
    /\ UNCHANGED <<mainPc, mu, vms, proxies, vmState, handlerPc, timer, timedOut, mloaded, sess,
                   diskVars, brokerVars, consoleVars, clientVars, otherVars, countVars>>
    /\ UNCHANGED auxVars

\* m.mu.Lock(); delete the id from m.vms and m.consoles; with a proxy, call
\* proxy.Stop() while holding m.mu
VZManager_Stop_Lock(t) ==
    /\ mstop[t] = "lock"
    /\ mu = "none"
    /\ vms
    /\ vms' = FALSE
    /\ IF proxies
       THEN /\ mu' = t
            /\ stopPc' = [stopPc EXCEPT !["mgr"] = "enter"]
            /\ mstop' = [mstop EXCEPT ![t] = "proxy"]
       ELSE /\ mstop' = [mstop EXCEPT ![t] = "vmcheck"]
            /\ UNCHANGED <<mu, stopPc>>
    /\ UNCHANGED <<mainPc, proxies, vmState, handlerPc, timer, timedOut, mloaded, sess,
                   diskVars, consoleVars, clientVars, otherVars, countVars,
                   done, listener, currentClient, readerPc, buf, readerClient, monitorPc, acceptPc,
                   acceptConn, inputPc, shutdowns>>
    /\ UNCHANGED auxVars

\* proxy.Stop() returned: delete(m.proxies, id), m.mu.Unlock()
VZManager_Stop_Unlock(t) ==
    /\ mstop[t] = "proxy"
    /\ stopPc["mgr"] = "returned"
    /\ proxies' = FALSE
    /\ mu' = "none"
    /\ mstop' = [mstop EXCEPT ![t] = "vmcheck"]
    /\ UNCHANGED <<mainPc, vms, vmState, handlerPc, timer, timedOut, mloaded, sess,
                   diskVars, brokerVars, consoleVars, clientVars, otherVars, countVars>>
    /\ UNCHANGED auxVars

\* vm.State() is already Stopped: only the record is updated.  Otherwise
\* RequestStop asks the guest to shut down, or vm.Stop() forces it.
VZManager_Stop_VM(t) ==
    /\ mstop[t] = "vmcheck"
    /\ IF vmState = "stopped"
       THEN UNCHANGED vmState
       ELSE vmState' \in {"stopping", "stopped"}
    /\ mstop' = [mstop EXCEPT ![t] = "load"]
    /\ UNCHANGED <<mainPc, mu, vms, proxies, handlerPc, timer, timedOut, mloaded, sess,
                   diskVars, brokerVars, consoleVars, clientVars, otherVars, countVars>>
    /\ UNCHANGED auxVars

\* sess, err := m.sessions.Load(id); without a record Stop returns
VZManager_Stop_Load(t) ==
    /\ mstop[t] = "load"
    /\ mloaded' = [mloaded EXCEPT ![t] = store]
    /\ mstop' = [mstop EXCEPT ![t] = IF store.status = "none" THEN "returned" ELSE "save"]
    /\ UNCHANGED <<mainPc, mu, vms, proxies, vmState, handlerPc, timer, timedOut, sess,
                   diskVars, brokerVars, consoleVars, clientVars, otherVars, countVars>>
    /\ UNCHANGED auxVars

\* sess.Status = "stopped"; m.sessions.Save(sess)
VZManager_Stop_Save(t) ==
    /\ mstop[t] = "save"
    /\ Save([mloaded[t] EXCEPT !.status = "stopped"])
    /\ mstop' = [mstop EXCEPT ![t] = "returned"]
    /\ UNCHANGED <<mainPc, mu, vms, proxies, vmState, handlerPc, timer, timedOut, mloaded, sess,
                   sockFile, brokerVars, consoleVars, clientVars, otherVars, countVars>>
    /\ UNCHANGED auxVars

\* ---------------------------------------------------------------- `faize stop <id>` elsewhere
\* runStop in another CLI process: its VZManager has no VM for the id, so
\* Stop loads the record ...
runStop_Load ==
    /\ otherPc = "idle"
    /\ nStopCmds < MaxStopCmds
    /\ store.status # "none"
    /\ otherLoaded' = store
    /\ otherPc' = "loaded"
    /\ nStopCmds' = nStopCmds + 1
    /\ UNCHANGED <<mgrVars, diskVars, brokerVars, consoleVars, clientVars, nGuest, nTyped>>
    /\ UNCHANGED auxVars

\* ... and saves it with status "stopped"
runStop_Save ==
    /\ otherPc = "loaded"
    /\ Save([otherLoaded EXCEPT !.status = "stopped"])
    /\ otherPc' = "idle"
    /\ UNCHANGED <<mgrVars, sockFile, brokerVars, consoleVars, clientVars, otherLoaded, countVars>>
    /\ UNCHANGED auxVars

\* ---------------------------------------------------------------- specification
\* the proxy's goroutines when a single process connects to the socket: the
\* check of acceptLoop then always finds the slot empty
SoleClientProxyNext ==
    \/ consoleReaderLoop_Select
    \/ consoleReaderLoop_Read
    \/ consoleReaderLoop_LoadClient
    \/ consoleReaderLoop_Write
    \/ \E c \in Clients : acceptLoop_Accept(c)
    \/ acceptLoop_AcceptError
    \/ acceptLoop_Publish
    \/ \E c \in Clients : handleClientInput_Read(c)
    \/ \E c \in Clients : handleClientInput_Write(c)
    \/ \E c \in Clients : handleClientInput_CopyReturns(c)
    \/ \E c \in Clients : handleClientInput_ClearClient(c)
    \/ \E c \in Clients : handleClientInput_Close(c)
    \/ monitorConsoleEOF_Wake
    \/ monitorConsoleEOF_Return
    \/ \E k \in StopCallers : Stop_AlreadyStopped(k)
    \/ \E k \in StopCallers : Stop_Shutdown(k)
    \/ \E k \in StopCallers : Stop_WaitAndRemove(k)

ProxyNext == SoleClientProxyNext \/ acceptLoop_Reject

ManagerNext ==
    \/ VZManager_Create
    \/ VZManager_Create_NoProxy
    \/ VZManager_Create_Save
    \/ VZManager_Start
    \/ VZManager_Start_Fails
    \/ VZManager_Start_Save
    \/ runStart_Attach
    \/ runStart_AttachReturned
    \/ runStart_Persist
    \/ runStart_DeferredStop
    \/ runStart_Return
    \/ \E t \in Threads : VZManager_Stop_NotFound(t)
    \/ \E t \in Threads : VZManager_Stop_Lock(t)
    \/ \E t \in Threads : VZManager_Stop_Unlock(t)
    \/ \E t \in Threads : VZManager_Stop_VM(t)
    \/ \E t \in Threads : VZManager_Stop_Load(t)
    \/ \E t \in Threads : VZManager_Stop_Save(t)
    \/ StateHandler_Lookup
    \/ Console_Detach

ClientNext ==
    \/ Attach_Stat(Own)
    \/ Attach_Dial(Own)
    \/ Attach_DialFails(Own)
    \/ Attach_StaleSave(Own)
    \/ ConsoleClient_Attach_InitialRead(Own)
    \/ ConsoleClient_Attach_SocketEOF(Own)
    \/ ConsoleClient_Attach_Detach(Own)
    \/ ConsoleClient_Attach_Err(Own)

PeerNext ==
    \/ \E c \in Peers : Peer_Dial(c)
    \/ \E c \in Peers : Peer_Send(c)
    \/ \E c \in Peers : Peer_Close(c)

\* steps of the program's own goroutines and processes, once started
ProgramNext == SoleClientProxyNext \/ ManagerNext \/ ClientNext \/ runStop_Save

\* steps that depend on the world: the guest, the users, the clock
EnvNext ==
    \/ GuestWrite
    \/ GuestPowerOff
    \/ runStart_TimerFires
    \/ \E p \in StdinChunks : ConsoleClient_Attach_Stdin(Own, p)
    \/ runStop_Load

\* The session: the start command from Create to its return, with its own
\* attached terminal, the timeout timer, the guest, and `faize stop` run
\* from another process.
Next == ProgramNext \/ EnvNext

Spec == Init /\ [][Next]_vars

\* the goroutines and processes keep running once started; the guest, the
\* users and the timer owe nothing
FairSpec == Spec /\ WF_vars(ProgramNext)

\* The console proxy of a session and the processes that connect to its
\* socket: the start command creates and starts the session and stays ahead
\* of its own attach; stop() comes from the timeout timer's VZManager.Stop and
\* from the EOF monitor.
ProxyProgramNext ==
    \/ ProxyNext
    \/ VZManager_Create
    \/ VZManager_Create_Save
    \/ VZManager_Start
    \/ VZManager_Start_Save
    \/ VZManager_Stop_Lock("timer")
    \/ VZManager_Stop_Unlock("timer")
    \/ VZManager_Stop_VM("timer")
    \/ VZManager_Stop_Load("timer")
    \/ VZManager_Stop_Save("timer")
    \/ StateHandler_Lookup
    \/ Console_Detach

ProxyEnvNext ==
    \/ PeerNext
    \/ GuestWrite
    \/ GuestPowerOff
    \/ runStart_TimerFires

ProxySpecNext == ProxyProgramNext \/ ProxyEnvNext

ProxySpec == Init /\ [][ProxySpecNext]_vars

FairProxySpec == ProxySpec /\ WF_vars(ProxyProgramNext)

\* ---------------------------------------------------------------- properties
Range(f) == {f[i] : i \in DOMAIN f}

\* the input goroutine of c is inside io.Copy with something to relay: it
\* holds bytes it read and has yet to write, or it reads a connection the
\* proxy has not closed
Relaying(c) == \/ inputPc[c] = "write"
               \/ inputPc[c] = "read" /\ conn[c].srv = "open"

\* all that Stop promises: done closed, listener closed, no client, every
\* goroutine finished, socket file gone
BrokerStopped ==
    done /\ listener = "closed" /\ currentClient = NoClient /\ wg = 0 /\ ~sockFile

\* C1: in every reachable state of a started proxy the slot holds no or one
\* connection and at most one input goroutine is relaying socket input to
\* the console.
C1_AtMostOneRelaying ==
    /\ currentClient \in Clients \cup {NoClient}
    /\ Cardinality({c \in Clients : Relaying(c)}) <= 1

\* C2: a connection that acceptLoop examines while a client is attached gets
\* exactly the error line and is closed; it never becomes currentClient nor
\* gets an input goroutine, and the attached client and its connection are
\* left as they were.
C2_RejectStep ==
    \A c \in Clients :
        (conn[c].srv = "held" /\ currentClient # NoClient /\ conn'[c].srv # "held")
        => /\ conn'[c].out = <<ErrRec>>
           /\ conn'[c].srv = "closed"
           /\ currentClient' = currentClient
           /\ conn'[currentClient] = conn[currentClient]
           /\ inputPc' = inputPc

C2_Rejected ==
    \A c \in Clients :
        ErrRec \in Range(conn[c].out)
        => /\ conn[c].out = <<ErrRec>>
           /\ conn[c].srv = "closed"
           /\ currentClient # c
           /\ inputPc[c] = "none"

C2_SecondClientRejected == [][C2_RejectStep]_vars /\ []C2_Rejected

\* a second connection has been rejected while the first is still attached
C2_Witness ==
    \E c, d \in Clients :
        /\ c # d
        /\ currentClient = c /\ conn[c].srv = "open" /\ inputPc[c] = "read"
        /\ conn[d].out = <<ErrRec>> /\ conn[d].srv = "closed"

\* C3: once stop() has been called on the started proxy, every goroutine of
\* the proxy eventually finishes, stop() returns and the socket file is gone.
C3_StopTerminates ==
    (stopPc["mgr"] # "idle") ~> (stopPc["mgr"] = "returned" /\ BrokerStopped)

\* C4: once the console is closed, the proxy eventually is stopped, all its
\* goroutines finished (the EOF monitor too) and the socket file removed.
C4_ConsoleEOFStopsBroker ==
    (consoleClosed /\ listener # "nil") ~> (BrokerStopped /\ monitorPc = "exited")

\* C5: the shutdown is performed once, and every Stop call that has returned
\* leaves the proxy fully stopped with the socket file absent.
C5_StopIdempotent ==
    /\ shutdowns <= 1
    /\ \A k \in StopCallers : stopPc[k] = "returned" => BrokerStopped

\* C6: a chunk the guest wrote while no client was attached is never
\* delivered to a client.
C6_DetachedOutputDiscarded ==
    \A c \in Clients : \A i \in DOMAIN conn[c].out :
        conn[c].out[i].src = "guest" => conn[c].out[i].att

\* C7: once the store has held status stopped for the session, it holds
\* neither created nor running again.
C7_StatusMonotone ==
    wasStopped => store.status \notin {"created", "running"}

\* C8: while the persisted status is running, the socket file exists and the
\* proxy listens on it.
C8_RunningHasSocket ==
    store.status = "running" => (sockFile /\ listener = "open")

\* C9: if the timeout timer fires, then eventually the VM has been stopped,
\* the persisted record is stopped with exit_reason timeout, and the start
\* command has returned.
C9_TimeoutStopsSession ==
    timedOut ~> (/\ mainPc = "returned"
                 /\ vmState \in {"stopping", "stopped"}
                 /\ store = [status |-> "stopped", exit |-> "timeout"])

\* C10: after the attached user typed `~.` at the start of a line (and the
\* timer has not fired), what was typed before it was sent to the proxy,
\* attach has returned UserDetach and closed the socket, and from the moment
\* the start command has persisted its record on, the record is stopped with
\* exit_reason detach.
C10_DetachRecorded ==
    (detachCh[Own] /\ ~timedOut /\ mainPc \in {"deferred", "stopping", "returned"})
    => /\ result[Own] = "detach"
       /\ conn[Own].cli = "closed"
       /\ store = [status |-> "stopped", exit |-> "detach"]

\* C24: once the start command has returned, a session that a stop command
\* found running and stopped by force is recorded as stopped with
\* exit_reason killed, and a session whose agent exited (no timeout, no
\* detach, no stop command) is recorded as stopped with exit_reason normal.
C24_KilledOrNormalRecorded ==
    /\ (mainPc = "returned" /\ otherPc = "idle" /\ nStopCmds > 0 /\ otherLoaded.status = "running")
       => store = [status |-> "stopped", exit |-> "killed"]
    /\ (mainPc = "returned" /\ nStopCmds = 0 /\ otherPc = "idle" /\ result[Own] = "nil" /\ ~timedOut)
       => store = [status |-> "stopped", exit |-> "normal"]

\* C28: whatever clients attach, detach, reattach or are rejected, and
\* whenever the proxy is stopped, bytes leave the guest-to-host pipe only in a
\* Read of the one consoleReaderLoop, and a reader that has exited is never
\* started again: there is never a second reader.
C28_PipeReadStep ==
    Len(pipe') < Len(pipe) => (readerPc = "read" /\ readerPc' = "deliver" /\ buf' = pipe)

C28_NoNewReader == readerPc = "exited" => readerPc' = "exited"

C28_SingleReader == [][C28_PipeReadStep /\ C28_NoNewReader]_vars

C28_Witness ==
    /\ readerPc = "deliver"
    /\ buf # <<>>
    /\ currentClient # NoClient
    /\ \E c \in Clients : c # currentClient /\ inputPc[c] = "exited"

\* C29: at most one input task is writing to the host-to-guest pipe, the task
\* that writes is the one of currentClient, and a client's input task starts
\* to write only when no other client's task is still relaying.
C29_WriterIsCurrent ==
    /\ Cardinality({c \in Clients : inputPc[c] = "write"}) <= 1
    /\ \A c \in Clients : inputPc[c] = "write" => currentClient = c

C29_WriteStartStep ==
    \A c \in Clients :
        (inputPc[c] # "write" /\ inputPc'[c] = "write")
        => \A d \in Clients \ {c} : ~Relaying(d)

C29_SingleWriter == []C29_WriterIsCurrent /\ [][C29_WriteStartStep]_vars

\* C30: whenever the reader writes a block to a connection, that connection
\* is currentClient at the moment of the write, however the reader is
\* interleaved with a client's disconnect and the acceptance of a new client.
C30_DeliverStep ==
    \A c \in Clients :
        (readerPc = "write" /\ readerPc' = "check" /\ conn'[c].out # conn[c].out)
        => currentClient = c

C30_NoStaleDelivery == [][C30_DeliverStep]_vars

\* C31: once Stop has closed done, no connection becomes currentClient and no
\* input task is started, not even for a connection that acceptLoop had
\* accepted before Stop ran.
C31_StoppedStep ==
    done => /\ currentClient' \in {currentClient, NoClient}
            /\ \A c \in Clients : inputPc[c] = "none" => inputPc'[c] = "none"

C31_StoppedIsTerminal == [][C31_StoppedStep]_vars

\* The stream from the guest to the clients: the proxy, the processes that
\* attach and disconnect without typing, a guest that writes several chunks
\* and powers off, and the stop() of the EOF monitor.
StreamNext ==
    \/ VZManager_Create
    \/ VZManager_Create_Save
    \/ VZManager_Start
    \/ VZManager_Start_Save
    \/ consoleReaderLoop_Select
    \/ consoleReaderLoop_Read
    \/ consoleReaderLoop_LoadClient
    \/ consoleReaderLoop_Write
    \/ \E c \in Clients : acceptLoop_Accept(c)
    \/ acceptLoop_AcceptError
    \/ acceptLoop_Reject
    \/ acceptLoop_Publish
    \/ \E c \in Clients : handleClientInput_CopyReturns(c)
    \/ \E c \in Clients : handleClientInput_ClearClient(c)
    \/ \E c \in Clients : handleClientInput_Close(c)
    \/ monitorConsoleEOF_Wake
    \/ Stop_Shutdown("mon")
    \/ StateHandler_Lookup
    \/ Console_Detach
    \/ \E c \in Peers : Peer_Dial(c)
    \/ \E c \in Peers : Peer_Close(c)
    \/ Guest_WriteChunk
    \/ GuestPowerOff

StreamSpec == Init /\ [][StreamNext]_vars

\* the numbers of the guest's chunks in what the proxy has sent to c
GuestChunks(c) == SelectSeq(conn[c].out, LAMBDA r : r.src = "guest")

\* C32: what a client that was attached has been sent by the proxy is made of
\* chunks the guest wrote, in the order the guest wrote them, none of them
\* twice.
C32_OrderedSubsequence ==
    \A c \in Clients :
        inputPc[c] # "none" =>
            /\ \A i \in DOMAIN conn[c].out : conn[c].out[i].src = "guest"
            /\ \A i \in DOMAIN GuestChunks(c) : GuestChunks(c)[i].text \in 1..nGuest
            /\ \A i, j \in DOMAIN GuestChunks(c) :
                   i < j => GuestChunks(c)[i].text < GuestChunks(c)[j].text

C32_Witness ==
    \E c \in Clients :
        /\ inputPc[c] # "none"
        /\ Len(GuestChunks(c)) >= 2
        /\ \E d \in Clients \ {c} : inputPc[d] # "none"

\* C39: once the record is stopped with an exit reason, no step replaces it
\* by a record with another exit reason or none.
C39_FinalRecordStep ==
    (store.status = "stopped" /\ store.exit # "") => store' = store

C39_FinalRecordKept == [][C39_FinalRecordStep]_vars

\* C40: when the start command has returned because Start failed after a
\* Create that started the proxy, the proxy is stopped, the socket file is
\* gone, the session is out of the manager's maps and the record is no
\* longer created.
C40_FailedStartReleases ==
    (mainPc = "returned" /\ sess.status = "created" /\ listener # "nil")
    => /\ done /\ listener = "closed"
       /\ ~sockFile
       /\ ~vms /\ ~proxies
       /\ store.status # "created"

\* C35: a VZManager.Stop that took the map lock eventually gives it back and
\* returns.
C35_StopReleasesLock ==
    \A t \in Threads : (mu = t) ~> (mu # t /\ mstop[t] = "returned")

\* the broker of a running session with clients that attach, type and
\* disconnect while the guest writes: the session is never stopped
DetachProgramNext ==
    \/ VZManager_Create
    \/ VZManager_Create_Save
    \/ VZManager_Start
    \/ VZManager_Start_Save
    \/ consoleReaderLoop_Select
    \/ consoleReaderLoop_Read
    \/ consoleReaderLoop_LoadClient
    \/ consoleReaderLoop_Write
    \/ \E c \in Clients : acceptLoop_Accept(c)
    \/ acceptLoop_Reject
    \/ acceptLoop_Publish
    \/ \E c \in Clients : \/ handleClientInput_Read(c)
                          \/ handleClientInput_Write(c)
                          \/ handleClientInput_CopyReturns(c)
                          \/ handleClientInput_ClearClient(c)
                          \/ handleClientInput_Close(c)

DetachEnvNext ==
    \/ \E c \in Peers : Peer_Dial(c) \/ Peer_Send(c) \/ Peer_Close(c)
    \/ Guest_WriteChunk

DetachNext == DetachProgramNext \/ DetachEnvNext

DetachSpec == Init /\ [][DetachNext]_vars

\* the goroutines of the broker are scheduled: a step of the program that
\* stays possible is eventually taken
FairDetachSpec == DetachSpec /\ WF_vars(DetachProgramNext)

\* the reader is about to write a block to c and the write will fail
WriteFails(c) ==
    /\ readerPc = "write"
    /\ readerClient = c
    /\ buf # <<>>
    /\ ~(conn[c].srv = "open" /\ conn[c].cli = "open")

\* C33: when the reader's write to a client fails, that client is eventually
\* detached (the slot no longer holds it and its connection is closed); the
\* failed write itself does not end the reader, close done or close the
\* listener.
C33_FailedWriteStep ==
    \A c \in Clients :
        (WriteFails(c) /\ readerPc' # "write")
        => readerPc' = "check" /\ done' = done /\ listener' = listener /\ sockFile' = sockFile

C33_FailedWriteDetaches ==
    /\ \A c \in Clients : WriteFails(c) ~> (currentClient # c /\ conn[c].srv = "closed")
    /\ [][C33_FailedWriteStep]_vars

C33_Witness ==
    \E c \in Clients :
        /\ WriteFails(c)
        /\ currentClient = c
        /\ conn[c].cli = "closed" /\ conn[c].srv = "open"
        /\ ~done

\* ================================================================ EscapeWriter
\* An EscapeWriter on its own: io.Copy hands it the terminal's input in
\* Write calls of any sizes.
EscBytes == {"a", "~", ".", "?", "\n"}
WriteArgs == UNION {[1..n -> EscBytes] : n \in 1..MaxWriteLen}
WriteCalls == UNION {[1..n -> WriteArgs] : n \in 1..MaxWriteCalls}

SessionIdle ==
    UNCHANGED <<mgrVars, diskVars, brokerVars, consoleVars, clientVars, otherVars, countVars>>

OldIdle == SessionIdle /\ UNCHANGED <<ew, np, st, watch, relays, reqs>>

EscapeInit ==
    /\ SessionInit
    /\ \E cs \in WriteCalls : ew = [NoEscapeWriter EXCEPT !.calls = cs]
    /\ np = NoParse
    /\ st = NoStart
    /\ RelayIdle
    /\ MoreIdle

\* one e.Write(p); close(e.detachCh) on a closed channel panics
EscapeWriter_WriteCall ==
    /\ ew.calls # <<>>
    /\ ~ew.panicked
    /\ LET p == Head(ew.calls)
           r == EscapeWriter_Write(ew.state, p)
       IN ew' = [state |-> [afterNewline |-> r.afterNewline, pendingTilde |-> r.pendingTilde],
                 calls |-> Tail(ew.calls),
                 input |-> ew.input \o p,
                 fwd |-> ew.fwd \o r.fwd,
                 help |-> ew.help + r.help,
                 closes |-> IF r.detach /\ ew.closes = 0 THEN 1 ELSE ew.closes,
                 panicked |-> r.detach /\ ew.closes > 0]
    /\ SessionIdle
    /\ UNCHANGED <<np, st, watch, relays, reqs, moreVars>>

EscapeNext == EscapeWriter_WriteCall

EscapeSpec == EscapeInit /\ [][EscapeNext]_vars

\* the input with the escape sequences taken out, byte by byte: `~.` and `~?`
\* at the start of a line vanish, `~~` there stands for one `~`; a `~` that
\* ends the input is counted as sent. With stop, the input ends at the
\* first `~.`.
RECURSIVE StripFrom(_, _, _, _)
StripFrom(s, i, nl, stop) ==
    IF i > Len(s) THEN <<>>
    ELSE IF nl /\ s[i] = "~" THEN
        IF i = Len(s) THEN <<"~">>
        ELSE LET b == s[i + 1] IN
             IF b = "." THEN (IF stop THEN <<>> ELSE StripFrom(s, i + 2, FALSE, stop))
             ELSE IF b = "?" THEN StripFrom(s, i + 2, FALSE, stop)
             ELSE IF b = "~" THEN <<"~">> \o StripFrom(s, i + 2, FALSE, stop)
             ELSE <<"~", b>> \o StripFrom(s, i + 2, b = "\n" \/ b = "\r", stop)
    ELSE <<s[i]>> \o StripFrom(s, i + 1, s[i] = "\n" \/ s[i] = "\r", stop)

StripEscapes(s) == StripFrom(s, 1, TRUE, FALSE)
StripUntilDetach(s) == StripFrom(s, 1, TRUE, TRUE)

\* what the writer has sent on, with the `~` it still holds
Forwarded == ew.fwd \o (IF ew.state.pendingTilde THEN <<"~">> ELSE <<>>)

\* C11 (as stated): whatever the input and however it is split into Write
\* calls, the bytes forwarded are the input minus the escape sequences, in
\* order, none dropped or duplicated.
C11_ForwardsAllButEscapes ==
    ~ew.panicked => Forwarded = StripEscapes(ew.input)

\* C11 (amended): until a `~.` is recognised the bytes forwarded are the
\* input minus the escape sequences, in order; the Write call that
\* recognises the first `~.` returns there, so what it has forwarded is the
\* input before that `~.` minus the escape sequences.
C11_BeforeDetach ==
    ew.closes = 0 => Forwarded = StripEscapes(ew.input)

C11_DetachStep ==
    (ew.closes = 0 /\ ew'.closes = 1) => ew'.fwd = StripUntilDetach(ew'.input)

C11_ForwardsUntilDetach == []C11_BeforeDetach /\ [][C11_DetachStep]_vars

\* an escape was recognised across two Write calls, bytes were forwarded
\* before it and the bytes after it in its call were not
C11_Witness ==
    /\ ew.calls = <<>>
    /\ ew.closes = 1
    /\ ew.fwd # <<>>
    /\ Len(ew.input) > Len(ew.fwd) + 2
    /\ ew.input[Len(ew.input)] = "a"

\* C37: however often `~.` occurs at the start of a line, in one Write call
\* or in several, detachCh is closed once at most and no Write call panics
\* in close(e.detachCh).
C37_DetachOneShot ==
    ew.closes <= 1 /\ ~ew.panicked

\* what a held `~` followed by byte b puts on e.w
HeldThen(b) ==
    CASE b = "." -> <<>>
      [] b = "?" -> <<>>
      [] b = "~" -> <<"~">>
      [] OTHER -> <<"~", b>>

\* C34: a Write call that finds pendingTilde set settles the held `~` with
\* its first byte: `.` and `?` consume it (detach, help), `~` and any other
\* byte, a newline among them, put exactly one `~` on e.w before the byte;
\* after that byte pendingTilde is clear, and the rest of the call is
\* processed as from a writer that holds nothing.
C34_PendingStep ==
    (ew.state.pendingTilde /\ ew.calls # <<>> /\ ew' # ew) =>
        LET p == Head(ew.calls)
            b == p[1]
            out == SubSeq(ew'.fwd, Len(ew.fwd) + 1, Len(ew'.fwd))
            rest == EscapeWriteFrom([afterNewline |-> b \in {"\n", "\r"}, pendingTilde |-> FALSE,
                                     fwd |-> <<>>, help |-> 0, detach |-> FALSE], Tail(p), 1)
        IN IF b = "." THEN
               /\ out = <<>>
               /\ ~ew'.state.pendingTilde
               /\ ew'.help = ew.help
               /\ ew'.closes = 1
           ELSE
               /\ out = HeldThen(b) \o rest.fwd
               /\ ew'.state.pendingTilde = rest.pendingTilde
               /\ ew'.help = ew.help + (IF b = "?" THEN 1 ELSE 0) + rest.help

\* a `~` is held only at the end of what has been processed
C34_HeldIsLastByte ==
    ew.state.pendingTilde => /\ ew.input # <<>>
                             /\ ew.input[Len(ew.input)] = "~"
                             /\ ~ew.state.afterNewline

NetTokens == {
    <<"all">>, <<" ", "ALL">>, <<"none">>, <<"NPM">>, <<"bun">>,
    <<"custom", ".", "org">>,
    <<"*", ".", "example", ".", "com">>,
    <<"*", ".", "com">>,
    <<"*", "*", ".", "example", ".", "com">>,
    <<"sub", ".", "*", ".", "example", ".", "com">>,
    <<"*", ".", "*", ".", "example", ".", "com">> }

SpecLists == UNION {[1..n -> NetTokens] : n \in 0..MaxSpecs}

Presets ==
    [k \in {<<"npm">>, <<"pypi">>, <<"github">>, <<"anthropic">>, <<"openai">>, <<"bun">>} |->
        CASE k = <<"npm">> -> << <<"registry", ".", "npmjs", ".", "org">>, <<"npmjs", ".", "com">> >>
          [] k = <<"pypi">> -> << <<"pypi", ".", "org">>, <<"files", ".", "pythonhosted", ".", "org">> >>
          [] k = <<"github">> -> << <<"github", ".", "com">>, <<"api", ".", "github", ".", "com">>,
                                    <<"raw", ".", "githubusercontent", ".", "com">> >>
          [] k = <<"anthropic">> -> << <<"api", ".", "anthropic", ".", "com">>, <<"anthropic", ".", "com">> >>
          [] k = <<"openai">> -> << <<"api", ".", "openai", ".", "com">>, <<"openai", ".", "com">> >>
          [] k = <<"bun">> -> << <<"bun", ".", "sh">>, <<"registry", ".", "npmjs", ".", "org">> >>]

NetworkAll == <<"all">>
NetworkNone == <<"none">>

ToLower(t) ==
    [i \in DOMAIN t |-> CASE t[i] = "ALL" -> "all" [] t[i] = "NPM" -> "npm" [] OTHER -> t[i]]

RECURSIVE TrimSpace(_)
TrimSpace(t) ==
    IF t = <<>> THEN t
    ELSE IF Head(t) = " " THEN TrimSpace(Tail(t))
    ELSE IF t[Len(t)] = " " THEN TrimSpace(SubSeq(t, 1, Len(t) - 1))
    ELSE t

HasPrefix(t, pre) == Len(t) >= Len(pre) /\ SubSeq(t, 1, Len(pre)) = pre
TrimPrefix(t, pre) == IF HasPrefix(t, pre) THEN SubSeq(t, Len(pre) + 1, Len(t)) ELSE t
Contains(t, sub) == \E i \in 0..(Len(t) - Len(sub)) : SubSeq(t, i + 1, i + Len(sub)) = sub

IsWildcard(domain) == HasPrefix(domain, <<"*", ".">>)

\* ValidateWildcard(pattern) == nil
ValidateWildcard(pattern) ==
    LET baseDomain == TrimPrefix(pattern, <<"*", ".">>) IN
    /\ IsWildcard(pattern)
    /\ ~Contains(pattern, <<"*", "*">>)
    /\ ~Contains(baseDomain, <<"*">>)
    /\ Contains(baseDomain, <<".">>)
    /\ baseDomain # <<>>

ExtractBaseDomain(pattern) == TrimPrefix(pattern, <<"*", ".">>)

\* strings.TrimSpace(strings.ToLower(spec))
NormalizeSpec(spec) == TrimSpace(ToLower(spec))

SeqContains(q, x) == \E i \in DOMAIN q : q[i] = x

RECURSIVE deduplicateFrom(_, _, _)
deduplicateFrom(domains, i, res) ==
    IF i > Len(domains) THEN res
    ELSE deduplicateFrom(domains, i + 1,
                         IF SeqContains(res, domains[i]) THEN res
                         ELSE Append(res, domains[i]))

deduplicateDomains_Keep(domains) == domains

deduplicateDomains(domains) == deduplicateFrom(domains, 1, <<>>)

EmptyPolicy == [AllowAll |-> FALSE, Blocked |-> FALSE, Domains |-> <<>>, Wildcards |-> <<>>]

\* a first pass that looks at the spec at position i only
FirstSpecial_HeadOnly(specs, i) ==
    IF i > Len(specs) THEN <<>>
    ELSE IF NormalizeSpec(specs[i]) = NetworkAll THEN NetworkAll
    ELSE IF NormalizeSpec(specs[i]) = NetworkNone THEN NetworkNone
    ELSE <<>>

\* first pass: the first spec in list order that is "all" or "none"
RECURSIVE FirstSpecial(_, _)
FirstSpecial(specs, i) ==
    IF i > Len(specs) THEN <<>>
    ELSE IF NormalizeSpec(specs[i]) = NetworkAll THEN NetworkAll
    ELSE IF NormalizeSpec(specs[i]) = NetworkNone THEN NetworkNone
    ELSE FirstSpecial(specs, i + 1)

\* second pass: presets, wildcards, literal domains
RECURSIVE ParseFrom(_, _, _)
ParseFrom(policy, specs, i) ==
    IF i > Len(specs) THEN policy
    ELSE LET spec == NormalizeSpec(specs[i]) IN
         ParseFrom(IF spec \in DOMAIN Presets
                       THEN [policy EXCEPT !.Domains = @ \o Presets[spec]]
                   ELSE IF IsWildcard(spec)
                       THEN (IF ValidateWildcard(spec)
                                THEN [policy EXCEPT !.Wildcards = Append(@, spec)]
                                ELSE policy)
                   ELSE [policy EXCEPT !.Domains = Append(@, spec)],
                   specs, i + 1)

Parse(specs) ==
    IF Len(specs) = 0 THEN [EmptyPolicy EXCEPT !.Blocked = TRUE]
    ELSE IF FirstSpecial(specs, 1) = NetworkAll THEN [EmptyPolicy EXCEPT !.AllowAll = TRUE]
    ELSE IF FirstSpecial(specs, 1) = NetworkNone THEN [EmptyPolicy EXCEPT !.Blocked = TRUE]
    ELSE LET policy == ParseFrom(EmptyPolicy, specs, 1) IN
         [policy EXCEPT !.Domains = deduplicateDomains(policy.Domains),
                        !.Wildcards = deduplicateDomains(policy.Wildcards)]

\* GenerateClaudeInitScript: the commands that depend on the policy, and the
\* launch of the agent at the end of the script
Line(cmd, arg) == [cmd |-> cmd, arg |-> arg]

GenerateClaudeInitScript(policy) ==
    (IF ~policy.AllowAll THEN
        IF policy.Blocked THEN
            << Line("iptables -P OUTPUT DROP", <<>>),
               Line("iptables -A OUTPUT -m state --state ESTABLISHED,RELATED -j ACCEPT", <<>>),
               Line("iptables -A OUTPUT -o lo -j ACCEPT", <<>>) >>
        ELSE IF Len(policy.Domains) > 0 \/ Len(policy.Wildcards) > 0 THEN
            << Line("iptables -P OUTPUT DROP", <<>>),
               Line("iptables -A OUTPUT -m state --state ESTABLISHED,RELATED -j ACCEPT", <<>>),
               Line("iptables -A OUTPUT -o lo -j ACCEPT", <<>>),
               Line("iptables -A OUTPUT --dport 53 -j ACCEPT", <<"8.8.8.8", "1.1.1.1">>) >>
            \o (IF Len(policy.Domains) > 0
                   THEN << Line("ALLOWED_DOMAINS", policy.Domains) >> ELSE <<>>)
            \o [i \in DOMAIN policy.Wildcards |->
                   Line("iptables -A OUTPUT -p tcp --dport 443 -m string", ExtractBaseDomain(policy.Wildcards[i]))]
        ELSE <<>>
     ELSE <<>>)
    \o << Line("exec claude", <<>>) >>

ParseInit ==
    /\ SessionInit
    /\ ew = NoEscapeWriter
    /\ \E x \in SpecLists : np = [pc |-> "parse", specs |-> x]
    /\ st = NoStart
    /\ RelayIdle
    /\ MoreIdle

\* network.Parse(specs), and Parse of the list written twice
network_Parse ==
    /\ np.pc = "parse"
    /\ np' = [pc |-> "generate", specs |-> np.specs,
              policy |-> Parse(np.specs), twice |-> Parse(np.specs \o np.specs)]
    /\ SessionIdle
    /\ UNCHANGED <<ew, st, watch, relays, reqs, moreVars>>

guest_GenerateClaudeInitScript ==
    /\ np.pc = "generate"
    /\ np' = [pc |-> "done", specs |-> np.specs, policy |-> np.policy, twice |-> np.twice,
              script |-> GenerateClaudeInitScript(np.policy)]
    /\ SessionIdle
    /\ UNCHANGED <<ew, st, watch, relays, reqs, moreVars>>

ParseNext == network_Parse \/ guest_GenerateClaudeInitScript

ParseSpec == ParseInit /\ [][ParseNext]_vars

AllowAllPolicy == [AllowAll |-> TRUE, Blocked |-> FALSE, Domains |-> <<>>, Wildcards |-> <<>>]
BlockAllPolicy == [AllowAll |-> FALSE, Blocked |-> TRUE, Domains |-> <<>>, Wildcards |-> <<>>]
Parsed == np.pc \in {"generate", "done"}
HasToken(x, t) == \E i \in DOMAIN x : NormalizeSpec(x[i]) = t

\* C12 (as stated): if any token is `all` parse returns allow-all, and if
\* any token is `none` parse returns block-all, whatever the other tokens.
C12_AllAndNoneAlwaysWin ==
    Parsed => /\ HasToken(np.specs, NetworkAll) => np.policy = AllowAllPolicy
              /\ HasToken(np.specs, NetworkNone) => np.policy = BlockAllPolicy

\* C12 (amended): of the tokens `all` and `none` (after trimming and
\* lowercasing) the one that comes first in the list decides: parse returns
\* allow-all if it is `all` and block-all if it is `none`, whatever the
\* position of that token and whatever the other tokens.
C12_FirstSpecialWins ==
    Parsed =>
        \A i \in DOMAIN np.specs :
            (\A j \in 1..(i - 1) : NormalizeSpec(np.specs[j]) \notin {NetworkAll, NetworkNone})
            => /\ NormalizeSpec(np.specs[i]) = NetworkAll => np.policy = AllowAllPolicy
               /\ NormalizeSpec(np.specs[i]) = NetworkNone => np.policy = BlockAllPolicy

\* ` ALL` after a preset and a wildcard was parsed to allow-all
C12_Witness ==
    /\ Parsed
    /\ Len(np.specs) = 3
    /\ np.specs[3] = <<" ", "ALL">>
    /\ np.specs[1] = <<"NPM">>
    /\ np.policy = AllowAllPolicy

\* a token with a `*` in it that is not `*.` followed by a domain of at least
\* two labels without `*`: TLD-only, recursive or mid-level
HasLabels(t) == t # <<>> /\ Contains(t, <<".">>) /\ ~Contains(t, <<"*">>)
InvalidWildcard(t) ==
    /\ Contains(t, <<"*">>)
    /\ ~(HasPrefix(t, <<"*", ".">>) /\ HasLabels(SubSeq(t, 3, Len(t))))

\* C13: a token that is a mid-level, recursive or TLD-only wildcard is in
\* neither the wildcard set nor the literal-domain set of the policy parsed.
C13_InvalidWildcardsDropped ==
    Parsed =>
        \A i \in DOMAIN np.specs :
            InvalidWildcard(NormalizeSpec(np.specs[i]))
            => /\ ~SeqContains(np.policy.Wildcards, NormalizeSpec(np.specs[i]))
               /\ ~SeqContains(np.policy.Domains, NormalizeSpec(np.specs[i]))

\* C14: if the policy parsed is not allow-all, the init script generated
\* from it sets `iptables -P OUTPUT DROP` before it launches the agent.
C14_DefaultDropBeforeAgent ==
    (np.pc = "done" /\ ~np.policy.AllowAll)
    => \E i, j \in DOMAIN np.script :
          /\ i < j
          /\ np.script[i].cmd = "iptables -P OUTPUT DROP"
          /\ np.script[j].cmd = "exec claude"

Count(q, x) == Cardinality({i \in DOMAIN q : q[i] = x})
SameElements(q, r) == \A x \in Range(q) \cup Range(r) : Count(q, x) = Count(r, x)

\* C15: parse(x) and parse(x ++ x) have the same allow-all and block-all
\* flags and the same domains and wildcards, up to the order of the elements.
C15_ParseIdempotentOnDoubling ==
    Parsed => /\ np.policy.AllowAll = np.twice.AllowAll
              /\ np.policy.Blocked = np.twice.Blocked
              /\ SameElements(np.policy.Domains, np.twice.Domains)
              /\ SameElements(np.policy.Wildcards, np.twice.Wildcards)

\* two presets that share a domain and a wildcard were parsed
C15_Witness ==
    /\ Parsed
    /\ np.specs = << <<"NPM">>, <<"bun">>, <<"*", ".", "example", ".", "com">> >>
    /\ Len(np.policy.Domains) = 3
    /\ Len(np.policy.Wildcards) = 1

\* ================================================================ mounts of a start command
\* A path is the sequence of its components below the root.
Home == <<"home">>
claudeDir == Home \o <<".claude">>
toolchainDir == Home \o <<".faize", "toolchain">>

\* v.blockedPaths, expanded
blockedPaths == { Home \o <<".ssh">>, Home \o <<".aws">> }

\* the symbolic links of the host: none, the project holds a link into
\* ~/.ssh, ~/.claude is a link to ~/.ssh
HostLinks == {
    [l \in {} |-> <<>>],
    [l \in {Home \o <<"proj", "keys">>} |-> Home \o <<".ssh">>],
    [l \in {claudeDir} |-> Home \o <<".ssh">>] }

ProjectDirs == { Home \o <<"proj">>, Home \o <<".ssh", "repo">> }

\* sources of --mount options
MountSources == { Home \o <<"data">>, Home \o <<".sshrc">>, Home \o <<".ssh", "id_rsa">>,
                  Home \o <<"proj", "keys">>, claudeDir }
StartMounts == UNION {[1..n -> MountSources] : n \in 0..MaxMounts}

\* cfg.Claude.AutoMounts
AutoMountLists == { <<>>, << Home \o <<".aws">> >> }

\* git roots found above the project directory ("" when there is none)
GitRoots == { <<>>, Home }

IsPathPrefix(base, path) == Len(base) <= Len(path) /\ SubSeq(path, 1, Len(base)) = base

\* filepath.EvalSymlinks over the links of the host
RECURSIVE EvalSymlinks(_, _)
EvalSymlinks(path, links) ==
    IF \E l \in DOMAIN links : IsPathPrefix(l, path)
    THEN LET l == CHOOSE l \in DOMAIN links : IsPathPrefix(l, path)
         IN EvalSymlinks(links[l] \o SubSeq(path, Len(l) + 1, Len(path)), links)
    ELSE path

\* testPath == basePath, or testPath begins with basePath and a separator
isUnderOrEqual(testPath, basePath) ==
    \/ testPath = basePath
    \/ Len(testPath) > Len(basePath) /\ IsPathPrefix(basePath, testPath)

\* Validator.Validate(m) == nil
Validate(source, links) ==
    LET realPath == EvalSymlinks(source, links)
    IN \A blocked \in blockedPaths : ~isUnderOrEqual(realPath, blocked)

\* one turn of the loop of runStart over allMountSpecs
MountAccepted(source, links) == source = claudeDir \/ Validate(source, links)

Mount(kind, source) == [kind |-> kind, Source |-> source]

\* allMountSpecs: project, ~/.claude, toolchain, auto-mounts, --mount
\* options, the .git directory of an enclosing repository
allMountSpecs(project, auto, user, gitRoot) ==
    << Mount("project", project), Mount("builtin", claudeDir), Mount("builtin", toolchainDir) >>
    \o [i \in DOMAIN auto |-> Mount("auto", auto[i])]
    \o [i \in DOMAIN user |-> Mount("user", user[i])]
    \o (IF gitRoot # <<>> /\ gitRoot # project
           THEN << Mount("git", gitRoot \o <<".git">>) >> ELSE <<>>)

StartInit ==
    /\ SessionInit
    /\ ew = NoEscapeWriter
    /\ np = NoParse
    /\ \E links \in HostLinks, project \in ProjectDirs, auto \in AutoMountLists,
          user \in StartMounts, gitRoot \in GitRoots :
          st = [pc |-> "validate", links |-> links,
                specs |-> allMountSpecs(project, auto, user, gitRoot),
                parsedMounts |-> <<>>, created |-> FALSE, err |-> ""]
    /\ RelayIdle
    /\ MoreIdle

OthersIdle == SessionIdle /\ UNCHANGED <<ew, np, watch, relays, reqs, moreVars>>

\* the loop turn for the next mount passes
runStart_MountAccepted ==
    /\ st.pc = "validate"
    /\ Len(st.parsedMounts) < Len(st.specs)
    /\ LET m == st.specs[Len(st.parsedMounts) + 1] IN
       /\ MountAccepted(m.Source, st.links)
       /\ st' = [st EXCEPT !.parsedMounts = Append(@, m)]
    /\ OthersIdle

\* the loop turn for the next mount fails: runStart returns the error
runStart_MountRejected ==
    /\ st.pc = "validate"
    /\ Len(st.parsedMounts) < Len(st.specs)
    /\ ~MountAccepted(st.specs[Len(st.parsedMounts) + 1].Source, st.links)
    /\ st' = [st EXCEPT !.pc = "returned", !.err = "mount validation failed"]
    /\ OthersIdle

\* all mounts passed: manager.Create(vmConfig)
runStart_Create ==
    /\ st.pc = "validate"
    /\ Len(st.parsedMounts) = Len(st.specs)
    /\ st' = [st EXCEPT !.pc = "created", !.created = TRUE]
    /\ OthersIdle

StartNext == runStart_MountAccepted \/ runStart_MountRejected \/ runStart_Create

StartSpec == StartInit /\ [][StartNext]_vars

\* the symlink-resolved source is a protected prefix or below one
UnderProtected(source, links) ==
    \E blocked \in blockedPaths : IsPathPrefix(blocked, EvalSymlinks(source, links))

\* C16: if Create has been invoked, no mount of the command has a
\* symlink-resolved source equal to or below a protected prefix; otherwise
\* the command has failed with the protected-path error.
C16_ProtectedMountsBlockCreate ==
    /\ st.created => \A i \in DOMAIN st.specs : ~UnderProtected(st.specs[i].Source, st.links)
    /\ (st.pc = "returned" /\ ~st.created) => st.err = "mount validation failed"

\* ================================================================ watchOpenURL and the OAuth relay
\* A URL as the watcher reads it: the pieces of its text up to the path, and
\* the redirect_uri of its query (port 0: no port; scheme "": no redirect_uri).
NoRedirect == [scheme |-> "", host |-> "", port |-> 0]
Localhost(port) == [scheme |-> "http", host |-> "localhost", port |-> port]
URL(text, redirect) == [text |-> text, redirect |-> redirect]

OpenURLs == {
    URL(<<"https://", "x/auth">>, Localhost(38449)),
    URL(<<" ", "https://", "x/auth">>, Localhost(38450)),
    URL(<<"https://", "x/auth">>, Localhost(80)),
    URL(<<"https://", "docs">>, NoRedirect),
    URL(<<"http://", "docs">>, NoRedirect),
    URL(<<"file://", "etc/passwd">>, NoRedirect),
    URL(<<" ">>, NoRedirect) }

\* ports another process of the host may hold
BusyPorts == { {}, {38450} }

\* parseOAuthRedirect: the port, or 0 for ("", false)
parseOAuthRedirect(url) ==
    LET r == url.redirect IN
    IF r.scheme = "" THEN 0
    ELSE IF r.scheme # "http" THEN 0
    ELSE IF r.host # "localhost" \/ r.port = 0 THEN 0
    ELSE IF r.port < 1024 \/ r.port > 65535 THEN 0
    ELSE r.port

\* strings.HasPrefix(url, "https://")
isURLAllowed(text) == HasPrefix(text, <<"https://">>)

NewRelay(port) ==
    [port |-> port, ln |-> "open", servePc |-> "start", pc |-> "wait", inShutdown |-> FALSE,
     fired |-> FALSE, handled |-> FALSE, callbacks |-> 0]

PortInUse(port) ==
    \/ port \in watch.busy
    \/ \E i \in DOMAIN relays : relays[i].port = port /\ relays[i].ln = "open"

RelayInit ==
    /\ SessionInit
    /\ ew = NoEscapeWriter
    /\ np = NoParse
    /\ st = NoStart
    /\ \E busy \in BusyPorts :
          watch = [pc |-> "run", urlFile |-> <<>>, seen |-> <<>>, done |-> FALSE,
                   busy |-> busy, nURLs |-> 0]
    /\ relays = <<>>
    /\ reqs = [r \in 1..MaxRequests |-> NoRequest]
    /\ MoreIdle

RestIdle == SessionIdle /\ UNCHANGED <<ew, np, st, moreVars>>

\* the guest asks for a URL to be opened
guest_WriteOpenURL(u) ==
    /\ watch.pc = "run"
    /\ watch.urlFile = <<>>
    /\ watch.nURLs < MaxURLs
    /\ watch' = [watch EXCEPT !.urlFile = <<u>>, !.nURLs = @ + 1]
    /\ UNCHANGED <<relays, reqs>>
    /\ RestIdle

\* the session's done channel is closed
session_CloseDone ==
    /\ watch.pc # "idle"
    /\ ~watch.done
    /\ watch' = [watch EXCEPT !.done = TRUE]
    /\ UNCHANGED <<relays, reqs>>
    /\ RestIdle

\* case <-done
watchOpenURL_Return ==
    /\ watch.pc = "run"
    /\ watch.done
    /\ watch' = [watch EXCEPT !.pc = "returned"]
    /\ UNCHANGED <<relays, reqs>>
    /\ RestIdle

Seen(url, opened) == [url |-> url, opened |-> opened]

\* case <-ticker.C with the file present: trim, remove the file, check the
\* scheme, start a relay for an OAuth URL, launch `open`
watchOpenURL_Tick ==
    /\ watch.pc = "run"
    /\ watch.urlFile # <<>>
    /\ LET data == watch.urlFile[1]
           url == TrimSpace(data.text)
           port == parseOAuthRedirect(data)
       IN IF url = <<>> THEN
              /\ watch' = [watch EXCEPT !.urlFile = <<>>]
              /\ UNCHANGED relays
          ELSE IF ~isURLAllowed(url) THEN
              /\ watch' = [watch EXCEPT !.urlFile = <<>>, !.seen = Append(@, Seen(data, FALSE))]
              /\ UNCHANGED relays
          ELSE IF port # 0 /\ PortInUse(port) THEN
              /\ watch' = [watch EXCEPT !.urlFile = <<>>, !.seen = Append(@, Seen(data, FALSE))]
              /\ UNCHANGED relays
          ELSE
              /\ watch' = [watch EXCEPT !.urlFile = <<>>, !.seen = Append(@, Seen(data, TRUE))]
              /\ relays' = IF port # 0 THEN Append(relays, NewRelay(port)) ELSE relays
    /\ UNCHANGED reqs
    /\ RestIdle

\* go func() { _ = srv.Serve(ln) }(): after Shutdown, Serve closes ln and
\* returns ErrServerClosed
startOAuthRelay_Serve(i) ==
    /\ relays[i].servePc = "start"
    /\ IF relays[i].inShutdown
       THEN /\ relays' = [relays EXCEPT ![i].servePc = "returned", ![i].ln = "closed"]
            /\ reqs' = [r \in DOMAIN reqs |->
                           IF reqs[r].relay = i /\ reqs[r].state = "accepted"
                           THEN [reqs[r] EXCEPT !.state = "refused"] ELSE reqs[r]]
       ELSE /\ relays' = [relays EXCEPT ![i].servePc = "running"]
            /\ UNCHANGED reqs
    /\ UNCHANGED watch
    /\ RestIdle

\* the select of the shutdown goroutine returns: handled, done, or
\* time.After(5 * time.Minute)
startOAuthRelay_WakeHandled(i) ==
    /\ relays[i].pc = "wait"
    /\ relays[i].handled
    /\ relays' = [relays EXCEPT ![i].pc = "woken"]
    /\ UNCHANGED <<watch, reqs>>
    /\ RestIdle

startOAuthRelay_WakeDone(i) ==
    /\ relays[i].pc = "wait"
    /\ watch.done
    /\ relays' = [relays EXCEPT ![i].pc = "woken"]
    /\ UNCHANGED <<watch, reqs>>
    /\ RestIdle

startOAuthRelay_WakeNever(i) ==
    /\ FALSE
    /\ UNCHANGED vars

startOAuthRelay_WakeTimeout(i) ==
    /\ relays[i].pc = "wait"
    /\ relays' = [relays EXCEPT ![i].pc = "woken"]
    /\ UNCHANGED <<watch, reqs>>
    /\ RestIdle

\* srv.Shutdown(ctx): the listener Serve tracks is closed; handlers under
\* way finish
startOAuthRelay_Shutdown(i) ==
    /\ relays[i].pc = "woken"
    /\ relays' = [relays EXCEPT ![i].pc = "exited", ![i].inShutdown = TRUE,
                                ![i].ln = IF relays[i].servePc = "running" THEN "closed" ELSE @,
                                ![i].servePc = IF @ = "running" THEN "returned" ELSE @]
    /\ UNCHANGED <<watch, reqs>>
    /\ RestIdle

\* the browser connects to the port of relay i
http_Request(r, i) ==
    /\ reqs[r].state = "new"
    /\ i \in DOMAIN relays
    /\ reqs' = [reqs EXCEPT ![r] = [relay |-> i,
                                    state |-> IF relays[i].ln = "open" THEN "accepted" ELSE "refused"]]
    /\ UNCHANGED <<watch, relays>>
    /\ RestIdle

\* the handler without its sync.Once
startOAuthRelay_HandlerNoOnce(r) ==
    /\ reqs[r].state = "accepted"
    /\ relays[reqs[r].relay].servePc # "start"
    /\ relays' = [relays EXCEPT ![reqs[r].relay].fired = TRUE]
    /\ reqs' = [reqs EXCEPT ![r].state = "fired"]
    /\ UNCHANGED watch
    /\ RestIdle

\* the handler: once.Do decides; the losers answer 410 Gone
startOAuthRelay_HandlerOnce(r) ==
    /\ reqs[r].state = "accepted"
    /\ relays[reqs[r].relay].servePc # "start"
    /\ IF relays[reqs[r].relay].fired
       THEN /\ reqs' = [reqs EXCEPT ![r].state = "gone"]
            /\ UNCHANGED relays
       ELSE /\ relays' = [relays EXCEPT ![reqs[r].relay].fired = TRUE]
            /\ reqs' = [reqs EXCEPT ![r].state = "fired"]
    /\ UNCHANGED watch
    /\ RestIdle

\* the handler that fired: write auth-callback, answer the success page,
\* close(handled)
startOAuthRelay_HandlerRespond(r) ==
    /\ reqs[r].state = "fired"
    /\ relays' = [relays EXCEPT ![reqs[r].relay].callbacks = @ + 1,
                                ![reqs[r].relay].handled = TRUE]
    /\ reqs' = [reqs EXCEPT ![r].state = "success"]
    /\ UNCHANGED watch
    /\ RestIdle

RelayIds == 1..MaxURLs

RelayProgramNext ==
    \/ watchOpenURL_Return
    \/ watchOpenURL_Tick
    \/ \E i \in DOMAIN relays : startOAuthRelay_Serve(i)
    \/ \E i \in DOMAIN relays : startOAuthRelay_WakeHandled(i)
    \/ \E i \in DOMAIN relays : startOAuthRelay_WakeDone(i)
    \/ \E i \in DOMAIN relays : startOAuthRelay_WakeTimeout(i)
    \/ \E i \in DOMAIN relays : startOAuthRelay_Shutdown(i)
    \/ \E r \in DOMAIN reqs : startOAuthRelay_HandlerOnce(r)
    \/ \E r \in DOMAIN reqs : startOAuthRelay_HandlerRespond(r)

RelayEnvNext ==
    \/ \E u \in OpenURLs : guest_WriteOpenURL(u)
    \/ session_CloseDone
    \/ \E r \in DOMAIN reqs, i \in RelayIds : http_Request(r, i)

RelayNext == RelayProgramNext \/ RelayEnvNext

RelaySpec == RelayInit /\ [][RelayNext]_vars

\* goroutines keep running and the five minutes pass; the guest, the
\* browser and the session owe nothing
FairRelaySpec == RelaySpec /\ WF_vars(RelayProgramNext)

RequestsOf(i, states) == {r \in DOMAIN reqs : reqs[r].relay = i /\ reqs[r].state \in states}

\* C17 (as stated): of the requests sent to a started relay exactly one is
\* handled (it writes auth-callback and gets the success page) and every
\* other one is answered 410 Gone and writes nothing.
C17_OneHandledOthersGone ==
    \A i \in DOMAIN relays :
        /\ Cardinality(RequestsOf(i, {"fired", "success"})) <= 1
        /\ relays[i].callbacks = Cardinality(RequestsOf(i, {"success"}))
        /\ RequestsOf(i, {"refused"}) = {}

\* C17 (amended): of the requests sent to a started relay at most one is
\* handled (it writes auth-callback and gets the success page); every other
\* request the relay serves is answered 410 Gone and writes nothing; a
\* request that arrives after the relay shut down is refused and writes
\* nothing.
C17_AtMostOneHandled ==
    \A i \in DOMAIN relays :
        /\ Cardinality(RequestsOf(i, {"fired", "success"})) <= 1
        /\ relays[i].callbacks = Cardinality(RequestsOf(i, {"success"}))
        /\ RequestsOf(i, {"gone"}) # {} => relays[i].fired
        /\ RequestsOf(i, {"refused"}) # {} => relays[i].ln = "closed"

\* two requests reached one relay: one was handled, the other got 410
C17_Witness ==
    \E i \in DOMAIN relays :
        /\ RequestsOf(i, {"success"}) # {}
        /\ RequestsOf(i, {"gone"}) # {}
        /\ relays[i].callbacks = 1

\* C18: at most one relay is listening and not yet shut down.
C18_AtMostOneRelay ==
    Cardinality({i \in DOMAIN relays : relays[i].ln = "open"}) <= 1

\* C19: every relay that was started eventually shuts down and releases its
\* port.
C19_RelayShutsDown ==
    \A i \in RelayIds :
        (i \in DOMAIN relays)
        ~> (i \in DOMAIN relays /\ relays[i].ln = "closed" /\ relays[i].pc = "exited")

\* a relay that served its request has shut down, and one that got no
\* request has shut down too
C19_Witness ==
    /\ Len(relays) = 2
    /\ relays[1].handled /\ relays[1].ln = "closed" /\ relays[1].pc = "exited"
    /\ ~relays[2].fired /\ relays[2].ln = "closed" /\ relays[2].pc = "exited"
    /\ ~watch.done

\* C20: for every non-empty URL the watcher read, `open` was launched if and
\* only if the URL begins with `https://`.
C20_OpenedIffHttps ==
    \A k \in DOMAIN watch.seen :
        watch.seen[k].opened <=> isURLAllowed(TrimSpace(watch.seen[k].url.text))

\* ---------------------------------------------------------------- bootstrap message files
\* The host-side writers of the bootstrap directory and the file each writes.
BootWriters == {"VZManager.Create", "VZManager.Attach", "ConsoleClient.Attach",
                "SyncClipboardToDir", "startOAuthRelay"}

BootFiles == {"termsize", "clipboard-meta", "auth-callback"}

FileOf(w) ==
    CASE w = "SyncClipboardToDir" -> "clipboard-meta"
      [] w = "startOAuthRelay" -> "auth-callback"
      [] OTHER -> "termsize"

\* fmt.Sprintf("%d %d", w, h); "<type>\n<ns>\n"; "http://localhost:" + port + RequestURI
DataOf(w) ==
    CASE w = "SyncClipboardToDir" -> { <<"text/plain", "\n", "1", "\n">>, <<"none", "\n", "2", "\n">> }
      [] w = "startOAuthRelay" -> { <<"http://localhost:", "38450", "/callback?code=x">> }
      [] OTHER -> { <<"80", " ", "24">>, <<"120", " ", "40">> }

NoFile == << "ENOENT" >>

\* a write of d at offset 0 of a file holding old
WriteAt0(old, d) == IF Len(old) > Len(d) THEN d \o SubSeq(old, Len(d) + 1, Len(old)) ELSE d

BootInit ==
    /\ SessionInit
    /\ ew = NoEscapeWriter
    /\ np = NoParse
    /\ st = NoStart
    /\ RelayIdle
    /\ boot = [pc |-> "run",
               files |-> [f \in BootFiles |-> NoFile],
               wr |-> [w \in BootWriters |-> [pc |-> "idle", data |-> <<>>]],
               seen |-> [f \in BootFiles |-> {}],
               guestUp |-> FALSE,
               nWrites |-> 0]
    /\ cm = NoCreate
    /\ vz = NoVM
    /\ con = NoConsole

\* os.WriteFile, first half: OpenFile(name, O_WRONLY|O_CREATE|O_TRUNC, perm)
\* leaves the file in place with no content.  Create writes before the VM is
\* started; the relay's handler writes once (once.Do).
WriteFile_Open(w, d) ==
    /\ boot.pc = "run"
    /\ boot.wr[w].pc = "idle"
    /\ boot.nWrites < MaxFileWrites
    /\ w = "VZManager.Create" => ~boot.guestUp
    /\ w # "VZManager.Create" => boot.guestUp
    /\ boot' = [boot EXCEPT !.files[FileOf(w)] = <<>>,
                            !.wr[w] = [pc |-> "opened", data |-> d],
                            !.nWrites = @ + 1]
    /\ OldIdle /\ UNCHANGED <<cm, vz, con>>

\* os.WriteFile, second half: f.Write(data) and f.Close()
WriteFile_Write(w) ==
    /\ boot.wr[w].pc = "opened"
    /\ boot' = [boot EXCEPT
                  !.files[FileOf(w)] = IF @ = NoFile THEN boot.wr[w].data
                                       ELSE WriteAt0(@, boot.wr[w].data),
                  !.wr[w] = [pc |-> IF w = "startOAuthRelay" THEN "once" ELSE "idle",
                             data |-> <<>>]]
    /\ OldIdle /\ UNCHANGED <<cm, vz, con>>

\* manager.Start after Create: the guest runs the init script
guest_Boot ==
    /\ boot.pc = "run"
    /\ ~boot.guestUp
    /\ boot.wr["VZManager.Create"].pc = "idle"
    /\ boot' = [boot EXCEPT !.guestUp = TRUE]
    /\ OldIdle /\ UNCHANGED <<cm, vz, con>>

\* the guest's `if [ -f f ]; then cat f`
guest_Cat(f) ==
    /\ boot.guestUp
    /\ f # "auth-callback"
    /\ boot.files[f] # NoFile
    /\ boot' = [boot EXCEPT !.seen[f] = @ \cup {boot.files[f]}]
    /\ OldIdle /\ UNCHANGED <<cm, vz, con>>

\* the guest's poller: mv out of the share (a copy and an unlink), cat, rm
guest_MvCallback ==
    /\ boot.guestUp
    /\ boot.files["auth-callback"] # NoFile
    /\ boot' = [boot EXCEPT !.seen["auth-callback"] = @ \cup {boot.files["auth-callback"]},
                            !.files["auth-callback"] = NoFile]
    /\ OldIdle /\ UNCHANGED <<cm, vz, con>>

BootNext ==
    \/ \E w \in BootWriters : \E d \in DataOf(w) : WriteFile_Open(w, d)
    \/ \E w \in BootWriters : WriteFile_Write(w)
    \/ guest_Boot
    \/ \E f \in BootFiles : guest_Cat(f)
    \/ guest_MvCallback

BootSpec == BootInit /\ [][BootNext]_vars

\* C21: every content the guest reads from a bootstrap message file is a
\* complete message of one of that file's writers: never an empty or a
\* partial file.
C21_GuestReadsComplete ==
    \A f \in BootFiles :
        \A c \in boot.seen[f] : \E w \in BootWriters : FileOf(w) = f /\ c \in DataOf(w)

\* ---------------------------------------------------------------- VZManager.Create: mounts
VMMount(source, target, tag, readOnly) ==
    [Source |-> source, Target |-> target, Tag |-> tag, ReadOnly |-> readOnly]

SessionIDs == {"a1b2c3d4", "e5f6a7b8"}
CallerSources == {<<"Users", "me", "proj">>, <<"Users", "me", "data">>}

\* the mounts runStart hands over: the i-th is tagged mount<i>
CallerMountLists ==
    UNION { { [i \in 1..n |-> VMMount(f[i], f[i], <<"mount", i - 1>>, i = 2)] :
              f \in [1..n -> CallerSources] } : n \in 0..MaxMounts }

NoDir == <<>>
DirChoices(dir) == {NoDir, dir}

CreateConfigs ==
    { [Mounts |-> ms, ClaudeMode |-> cl, HostClaudeDir |-> hc, ToolchainDir |-> tc,
       CredentialsDir |-> cd] :
      ms \in CallerMountLists, cl \in BOOLEAN,
      hc \in DirChoices(<<"Users", "me", ".claude">>),
      tc \in DirChoices(<<"Users", "me", ".faize", "toolchain">>),
      cd \in DirChoices(<<"Users", "me", ".faize", "credentials">>) }

\* filepath.Join(m.artifacts.SessionDir(id), "bootstrap")
BootstrapDir(id) == <<"sessions", id, "bootstrap">>

bootstrapMount(bootstrapDir) ==
    VMMount(bootstrapDir, <<"mnt", "bootstrap">>, <<"faize-bootstrap">>, FALSE)

ModeMounts(cfg) ==
    IF ~cfg.ClaudeMode THEN <<>>
    ELSE (IF cfg.HostClaudeDir # NoDir
          THEN << VMMount(cfg.HostClaudeDir, <<"mnt", "host-claude">>, <<"host-claude">>, TRUE) >>
          ELSE <<>>)
      \o (IF cfg.ToolchainDir # NoDir
          THEN << VMMount(cfg.ToolchainDir, <<"opt", "toolchain">>, <<"toolchain">>, FALSE) >>
          ELSE <<>>)
      \o (IF cfg.CredentialsDir # NoDir
          THEN << VMMount(cfg.CredentialsDir, <<"mnt", "host-credentials">>, <<"credentials">>, FALSE) >>
          ELSE <<>>)

\* the mutant: the bootstrap mount appended after the caller's mounts
allMounts_BootstrapLast(cfg, bootstrapDir) ==
    cfg.Mounts \o << bootstrapMount(bootstrapDir) >> \o ModeMounts(cfg)

\* append([]session.VMMount{bootstrapMount}, cfg.Mounts...), then the mode's mounts
allMounts(cfg, bootstrapDir) ==
    << bootstrapMount(bootstrapDir) >> \o cfg.Mounts \o ModeMounts(cfg)

\* one VirtioFS device per mount, tagged mount<i> when the mount has no tag
createVirtioFSDevices(mounts) ==
    [i \in 1..Len(mounts) |->
        [tag |-> IF mounts[i].Tag = <<>> THEN <<"mount", i - 1>> ELSE mounts[i].Tag,
         source |-> mounts[i].Source,
         readOnly |-> mounts[i].ReadOnly]]

CreateInit ==
    /\ SessionInit
    /\ ew = NoEscapeWriter
    /\ np = NoParse
    /\ st = NoStart
    /\ RelayIdle
    /\ boot = NoBoot
    /\ vz = NoVM
    /\ con = NoConsole
    /\ \E cfg \in CreateConfigs, id \in SessionIDs :
          cm = [pc |-> "script", cfg |-> cfg, id |-> id, scriptMounts |-> <<>>,
                allMounts |-> <<>>, fsDevices |-> <<>>, sessMounts |-> <<>>]

\* guest.GenerateClaudeInitScript(cfg.Mounts, ...) or guest.GenerateInitScript(cfg.Mounts, ...)
VZManager_Create_InitScript ==
    /\ cm.pc = "script"
    /\ cm' = [cm EXCEPT !.pc = "mounts", !.scriptMounts = cm.cfg.Mounts]
    /\ OldIdle /\ UNCHANGED <<boot, vz, con>>

VZManager_Create_Mounts ==
    /\ cm.pc = "mounts"
    /\ cm' = [cm EXCEPT !.pc = "devices", !.allMounts = allMounts(cm.cfg, BootstrapDir(cm.id))]
    /\ OldIdle /\ UNCHANGED <<boot, vz, con>>

VZManager_Create_Devices ==
    /\ cm.pc = "devices"
    /\ cm' = [cm EXCEPT !.pc = "session", !.fsDevices = createVirtioFSDevices(cm.allMounts)]
    /\ OldIdle /\ UNCHANGED <<boot, vz, con>>

\* sess := &session.Session{..., Mounts: cfg.Mounts, ...}
VZManager_Create_Session ==
    /\ cm.pc = "session"
    /\ cm' = [cm EXCEPT !.pc = "done", !.sessMounts = cm.cfg.Mounts]
    /\ OldIdle /\ UNCHANGED <<boot, vz, con>>

CreateNext ==
    \/ VZManager_Create_InitScript
    \/ VZManager_Create_Mounts
    \/ VZManager_Create_Devices
    \/ VZManager_Create_Session

CreateSpec == CreateInit /\ [][CreateNext]_vars

\* ms is the bootstrap mount of session id followed by the caller's mounts in order
BootstrapThenCaller(ms, id, caller) ==
    /\ Len(ms) >= 1 + Len(caller)
    /\ ms[1].Tag = <<"faize-bootstrap">>
    /\ ms[1].Source = <<"sessions", id, "bootstrap">>
    /\ \A i \in 1..Len(caller) : ms[i + 1].Source = caller[i].Source /\ ms[i + 1].Tag = caller[i].Tag

SharedMounts == [i \in 1..Len(cm.fsDevices) |-> [Source |-> cm.fsDevices[i].source,
                                                Tag |-> cm.fsDevices[i].tag]]

\* C22 as stated: the list recorded in the session, the list given to the
\* init-script generator and the list shared with the VM all begin with the
\* bootstrap mount followed by the caller's mounts.
C22_AllListsStartWithBootstrap ==
    cm.pc = "done" =>
        /\ BootstrapThenCaller(cm.sessMounts, cm.id, cm.cfg.Mounts)
        /\ BootstrapThenCaller(cm.scriptMounts, cm.id, cm.cfg.Mounts)
        /\ BootstrapThenCaller(SharedMounts, cm.id, cm.cfg.Mounts)

\* C22 amended: the list shared with the VM begins with the bootstrap mount of
\* the session followed by the caller's mounts in their order; the session
\* record and the init-script generator get the caller's mounts only.
C22_SharedListStartsWithBootstrap ==
    /\ cm.pc \in {"session", "done"} => BootstrapThenCaller(SharedMounts, cm.id, cm.cfg.Mounts)
    /\ cm.pc = "done" => cm.sessMounts = cm.cfg.Mounts /\ cm.scriptMounts = cm.cfg.Mounts

C22_Witness ==
    /\ cm.pc = "done"
    /\ Len(cm.cfg.Mounts) = 2
    /\ cm.cfg.Mounts[1].Source # cm.cfg.Mounts[2].Source
    /\ cm.cfg.ClaudeMode
    /\ Len(cm.fsDevices) = 6

\* ---------------------------------------------------------------- the VM, its state changes, VZManager.Stop
\* Errors of the framework, as the words of err.Error().
NoErr == <<>>
ErrInvalidTransition ==
    <<"Error", "Domain=VZErrorDomain", "Invalid", "virtual", "machine", "state", "transition">>
ErrInternal == <<"Error", "Domain=VZErrorDomain", "Internal", "Virtualization", "error">>

Terminal == {"stopped", "error"}
Waiters == 1..MaxWaiters

\* the mutant: no error of vm.Stop() is taken for the race
IsStopRace_Never(err) == FALSE

\* strings.Contains(err.Error(), "Invalid virtual machine state transition")
IsStopRace(err) == Contains(err, <<"Invalid", "virtual", "machine", "state", "transition">>)

\* the framework moves the VM to state s and sends s on the channel of
\* StateChangedNotify, which buffers without bound
ChangeState(v, s) == [v EXCEPT !.state = s, !.stream = Append(@, s)]

VMInit ==
    /\ SessionInit
    /\ ew = NoEscapeWriter
    /\ np = NoParse
    /\ st = NoStart
    /\ RelayIdle
    /\ boot = NoBoot
    /\ cm = NoCreate
    /\ con = NoConsole
    /\ vz = [pc |-> "run",
             state |-> "running",
             stream |-> <<>>,
             known |-> TRUE,                 \* id in m.vms and m.consoles
             handler |-> "range",
             detached |-> FALSE,             \* console.Detach() was invoked
             waiter |-> [w \in Waiters |-> "none"],
             stop |-> "idle",
             err |-> NoErr,                  \* the error of the last framework call
             raced |-> FALSE,                \* the framework refused a stop of a stopped VM
             result |-> "none",
             record |-> "running"]

VMIdle == OldIdle /\ UNCHANGED <<boot, cm, con>>

\* the guest powers off, or the VM fails
vm_GuestStops ==
    /\ vz.pc = "run"
    /\ vz.state \in {"running", "stopping"}
    /\ \E s \in Terminal : vz' = ChangeState(vz, s)
    /\ VMIdle

\* Create's goroutine: for state := range vm.StateChangedNotify()
stateHandler_Receive ==
    /\ vz.handler = "range"
    /\ vz.stream # <<>>
    /\ vz' = [vz EXCEPT !.stream = Tail(@),
                        !.handler = IF Head(vz.stream) \in Terminal THEN "lookup" ELSE "range"]
    /\ VMIdle

\* console := m.consoles[id] under RLock; console.Detach() when it is there
stateHandler_Detach ==
    /\ vz.handler = "lookup"
    /\ vz' = [vz EXCEPT !.handler = "range", !.detached = @ \/ vz.known]
    /\ VMIdle

\* WaitForVMStop(id): done := make(chan struct{}); go func ...
VZManager_WaitForVMStop(w) ==
    /\ vz.pc = "run"
    /\ vz.waiter[w] = "none"
    /\ vz' = [vz EXCEPT !.waiter[w] = "lookup"]
    /\ VMIdle

\* vm, ok := m.vms[id]; without it the goroutine returns and done is closed
WaitForVMStop_Lookup(w) ==
    /\ vz.waiter[w] = "lookup"
    /\ vz' = [vz EXCEPT !.waiter[w] = IF vz.known THEN "range" ELSE "closed"]
    /\ VMIdle

\* for state := range vm.StateChangedNotify(): return on Stopped or Error
WaitForVMStop_Receive(w) ==
    /\ vz.waiter[w] = "range"
    /\ vz.stream # <<>>
    /\ vz' = [vz EXCEPT !.stream = Tail(@),
                        !.waiter[w] = IF Head(vz.stream) \in Terminal THEN "closed" ELSE "range"]
    /\ VMIdle

\* Stop(id) of the process that owns the VM
VZManager_Stop_Call ==
    /\ vz.pc = "run"
    /\ vz.stop = "idle"
    /\ vz' = [vz EXCEPT !.stop = "lock"]
    /\ VMIdle

\* m.mu.Lock(); delete(m.vms, id); delete(m.consoles, id); the proxy is
\* stopped and removed; m.mu.Unlock()
VZManager_Stop_Delete ==
    /\ vz.stop = "lock"
    /\ vz' = [vz EXCEPT !.known = FALSE, !.stop = "state"]
    /\ VMIdle

\* vm.State() is Stopped or Error: only the record is updated
VZManager_Stop_State ==
    /\ vz.stop = "state"
    /\ vz' = [vz EXCEPT !.stop = IF vz.state \in Terminal THEN "load" ELSE "can"]
    /\ VMIdle

\* vm.CanRequestStop(): the framework's answer for the state of the moment
VZManager_Stop_CanRequestStop ==
    /\ vz.stop = "can"
    /\ \E can \in (IF vz.state = "running" THEN BOOLEAN ELSE {FALSE}) :
          vz' = [vz EXCEPT !.stop = IF can THEN "request" ELSE "force"]
    /\ VMIdle

\* vm.RequestStop(): refused once the VM has stopped by itself; otherwise the
\* guest is asked to shut down, or the framework fails
VZManager_Stop_RequestStop ==
    /\ vz.stop = "request"
    /\ \/ /\ vz.state \in Terminal \cup {"stopping"}
          /\ vz' = [vz EXCEPT !.stop = "force", !.err = ErrInvalidTransition]
       \/ /\ vz.state = "running"
          /\ vz' = [ChangeState(vz, "stopping") EXCEPT !.stop = "load", !.err = NoErr]
       \/ /\ vz.state = "running"
          /\ vz' = [vz EXCEPT !.stop = "force", !.err = ErrInternal]
    /\ VMIdle

\* vm.Stop(): every error but the one of the race is returned
VZManager_Stop_ForceStop ==
    /\ vz.stop = "force"
    /\ \E err \in (IF vz.state \in Terminal THEN {ErrInvalidTransition} ELSE {NoErr, ErrInternal}) :
          LET v == IF err = NoErr THEN ChangeState(vz, "stopped") ELSE vz
              fails == err # NoErr /\ ~IsStopRace(err)
          IN vz' = [v EXCEPT !.err = err,
                             !.raced = @ \/ err = ErrInvalidTransition,
                             !.stop = IF fails THEN "returned" ELSE "load",
                             !.result = IF fails THEN "failed to stop VM" ELSE @]
    /\ VMIdle

\* m.sessions.Load(id); sess.Status = "stopped"; m.sessions.Save(sess); return nil
VZManager_Stop_Persist ==
    /\ vz.stop = "load"
    /\ vz' = [vz EXCEPT !.record = "stopped", !.stop = "returned", !.result = "nil"]
    /\ VMIdle

VMProgramNext ==
    \/ stateHandler_Receive
    \/ stateHandler_Detach
    \/ \E w \in Waiters : WaitForVMStop_Lookup(w)
    \/ \E w \in Waiters : WaitForVMStop_Receive(w)
    \/ VZManager_Stop_Delete
    \/ VZManager_Stop_State
    \/ VZManager_Stop_CanRequestStop
    \/ VZManager_Stop_RequestStop
    \/ VZManager_Stop_ForceStop
    \/ VZManager_Stop_Persist

VMEnvNext ==
    \/ vm_GuestStops
    \/ \E w \in Waiters : VZManager_WaitForVMStop(w)
    \/ VZManager_Stop_Call

VMNext == VMProgramNext \/ VMEnvNext

VMSpec == VMInit /\ [][VMNext]_vars

\* every goroutine and the caller of Stop keep being scheduled
FairVMSpec == VMSpec /\ WF_vars(VMProgramNext)

\* C23: when the stop request of Stop(id) is refused because the VM has
\* stopped by itself, Stop returns nil and the record it leaves is stopped.
C23_StopRaceIgnored ==
    (vz.pc = "run" /\ vz.raced /\ vz.stop = "returned") =>
        vz.result = "nil" /\ vz.record = "stopped"

C23_Witness ==
    /\ vz.pc = "run"
    /\ vz.raced
    /\ vz.stop = "returned"
    /\ vz.err = ErrInvalidTransition
    /\ vz.state = "stopped"

\* C36: once Stop(id) has returned nil and saved status stopped, the VM
\* eventually is Stopped or Error.
C36_StoppedRecordLeadsToTerminal ==
    (vz.stop = "returned" /\ vz.result = "nil" /\ vz.record = "stopped") ~> (vz.state \in Terminal)

\* C25: whenever the VM is Stopped or Error, console.Detach() is eventually
\* invoked for the session, whatever Stop(id) and the WaitForVMStop
\* goroutines did before or do after.
C25_TerminalLeadsToDetach ==
    (vz.pc = "run" /\ vz.state \in Terminal) ~> (vz.pc = "run" /\ vz.detached)

\* C26: the channel WaitForVMStop(id) returned for a VM the manager knew is
\* eventually closed once the VM is Stopped or Error, whether that state
\* came before or after the call and whoever else reads the state changes.
C26_WaiterClosedOnTerminal ==
    \A w \in Waiters :
        (vz.pc = "run" /\ vz.waiter[w] = "range" /\ vz.state \in Terminal)
            ~> (vz.pc = "run" /\ vz.waiter[w] = "closed")

\* ---------------------------------------------------------------- Console.Detach, Console.Close
DetachCallers == 1..MaxDetachCalls
NoCaller == 0

\* createConsole: both pipes open, done open, closed false, mu free
ConsoleInit ==
    /\ SessionInit
    /\ ew = NoEscapeWriter
    /\ np = NoParse
    /\ st = NoStart
    /\ RelayIdle
    /\ boot = NoBoot
    /\ cm = NoCreate
    /\ vz = NoVM
    /\ con = [pc |-> "run",
              mu |-> NoCaller,
              closed |-> FALSE,
              doneCloses |-> 0,               \* close(c.done) executed
              pipeCloses |-> 0,               \* c.read.Close() and c.write.Close() executed
              panicked |-> FALSE,
              call |-> [k \in DetachCallers |-> [pc |-> "idle", fn |-> "", ret |-> ""]]]

ConsoleIdle == OldIdle /\ UNCHANGED <<boot, cm, vz>>

\* a goroutine calls c.Detach(), or c.Close(), which returns c.Detach()
Console_Call(k, fn) ==
    /\ con.pc = "run"
    /\ ~con.panicked
    /\ con.call[k].pc = "idle"
    /\ con' = [con EXCEPT !.call[k] = [pc |-> "lock", fn |-> fn, ret |-> ""]]
    /\ ConsoleIdle

\* c.mu.Lock()
Detach_Lock(k) ==
    /\ ~con.panicked
    /\ con.call[k].pc = "lock"
    /\ con.mu = NoCaller
    /\ con' = [con EXCEPT !.mu = k, !.call[k].pc = "check"]
    /\ ConsoleIdle

\* the mutant: Detach without the closed flag
Detach_Check_NoFlag(k) ==
    /\ ~con.panicked
    /\ con.call[k].pc = "check"
    /\ con' = [con EXCEPT !.call[k].pc = "close"]
    /\ ConsoleIdle

\* if c.closed { return nil }  (the deferred Unlock runs); c.closed = true
Detach_Check(k) ==
    /\ ~con.panicked
    /\ con.call[k].pc = "check"
    /\ IF con.closed
       THEN con' = [con EXCEPT !.mu = NoCaller, !.call[k].pc = "returned", !.call[k].ret = "nil"]
       ELSE con' = [con EXCEPT !.closed = TRUE, !.call[k].pc = "close"]
    /\ ConsoleIdle

\* close(c.done), which panics on a closed channel; both pipe ends are
\* closed; return nil and the deferred Unlock
Detach_Close(k) ==
    /\ ~con.panicked
    /\ con.call[k].pc = "close"
    /\ IF con.doneCloses > 0
       THEN con' = [con EXCEPT !.panicked = TRUE, !.mu = NoCaller, !.call[k].pc = "panicked"]
       ELSE con' = [con EXCEPT !.doneCloses = @ + 1, !.pipeCloses = @ + 1, !.mu = NoCaller,
                               !.call[k].pc = "returned", !.call[k].ret = "nil"]
    /\ ConsoleIdle

ConsoleNext ==
    \/ \E k \in DetachCallers, fn \in {"Detach", "Close"} : Console_Call(k, fn)
    \/ \E k \in DetachCallers : Detach_Lock(k)
    \/ \E k \in DetachCallers : Detach_Check(k)
    \/ \E k \in DetachCallers : Detach_Close(k)

ConsoleSpec == ConsoleInit /\ [][ConsoleNext]_vars

Returned == {k \in DetachCallers : con.call[k].pc = "returned"}

\* C27: however many goroutines call Detach or Close, one after the other or
\* at once, done is closed at most once (exactly once as soon as a call has
\* returned), no call panics or returns an error, and a call that finds the
\* console closed changes nothing.
C27_DoneClosedOnce ==
    con.pc = "run" =>
        /\ con.doneCloses <= 1
        /\ con.pipeCloses <= 1
        /\ ~con.panicked
        /\ \A k \in Returned : con.call[k].ret = "nil" /\ con.doneCloses = 1 /\ con.closed

C27_LaterCallsNoOp ==
    [][\A k \in DetachCallers :
          (con.pc = "run" /\ con.closed /\ con.doneCloses = 1 /\ con.call[k].pc = "check"
             /\ con'.call[k].pc # "check")
          => /\ con'.doneCloses = con.doneCloses
             /\ con'.pipeCloses = con.pipeCloses
             /\ con'.closed
             /\ con'.call[k].ret = "nil"]_vars

C27_DetachIdempotent == []C27_DoneClosedOnce /\ C27_LaterCallsNoOp

C27_Witness ==
    /\ con.pc = "run"
    /\ Returned = DetachCallers
    /\ \E k1, k2 \in DetachCallers : con.call[k1].fn = "Detach" /\ con.call[k2].fn = "Close"
    /\ con.doneCloses = 1

\* ---------------------------------------------------------------- VZManager.Attach: termsize
\* The session with the processes that attach to it through VZManager.Attach:
\* the start command and `faize claude attach` run from other terminals.
\* Here boot holds bootstrap/termsize and, per process, how far its Attach is.
TermSize(c) == IF c = Own THEN <<"80", " ", "24">> ELSE <<"120", " ", "40">>

TermsizeInit ==
    /\ SessionInit
    /\ ew = NoEscapeWriter
    /\ np = NoParse
    /\ st = NoStart
    /\ RelayIdle
    /\ boot = [pc |-> "attach",
               termsize |-> <<"80", " ", "24">>,
               step |-> [c \in Clients |-> "todo"],
               wrote |-> [c \in Clients |-> FALSE]]
    /\ cm = NoCreate
    /\ vz = NoVM
    /\ con = NoConsole

\* `faize claude attach <id>` in another terminal: the session is listed as
\* running, manager.Attach(targetID)
runClaudeAttach(c) ==
    /\ c \in Peers
    /\ clientPc[c] = "idle"
    /\ store.status = "running"
    /\ clientPc' = [clientPc EXCEPT ![c] = "stat"]
    /\ UNCHANGED <<mgrVars, diskVars, brokerVars, consoleVars, otherVars, countVars,
                   conn, result, esc, detachCh, errCh, cloaded>>
    /\ UNCHANGED auxVars

\* Attach after the dial: client.SetTermsizePath, and when stdout is a
\* terminal os.WriteFile(termsizePath, "<w> <h>")
VZManager_Attach_Termsize(c) ==
    /\ boot.pc = "attach"
    /\ clientPc[c] = "initread"
    /\ boot.step[c] = "todo"
    /\ \E isTerminal \in BOOLEAN :
          boot' = [boot EXCEPT !.step[c] = "done",
                               !.termsize = IF isTerminal THEN TermSize(c) ELSE @,
                               !.wrote[c] = isTerminal]
    /\ OldIdle /\ UNCHANGED <<cm, vz, con>>

\* return client.Attach(os.Stdin, os.Stdout): the initial read
VZManager_Attach_ClientAttach(c) ==
    /\ boot.pc = "attach"
    /\ boot.step[c] = "done"
    /\ ConsoleClient_Attach_InitialRead(c)

TermsizeNext ==
    \/ VZManager_Create
    \/ VZManager_Create_Save
    \/ VZManager_Start
    \/ VZManager_Start_Save
    \/ runStart_Attach
    \/ \E c \in Peers : runClaudeAttach(c)
    \/ \E c \in Clients : \/ Attach_Stat(c)
                          \/ Attach_Dial(c)
                          \/ VZManager_Attach_Termsize(c)
                          \/ VZManager_Attach_ClientAttach(c)
                          \/ ConsoleClient_Attach_SocketEOF(c)
                          \/ ConsoleClient_Attach_Detach(c)
                          \/ ConsoleClient_Attach_Err(c)
    \/ \E q \in StdinChunks : ConsoleClient_Attach_Stdin(Own, q)
    \/ \E c \in Clients : acceptLoop_Accept(c)
    \/ acceptLoop_Reject
    \/ acceptLoop_Publish
    \/ \E c \in Clients : \/ handleClientInput_Read(c)
                          \/ handleClientInput_Write(c)
                          \/ handleClientInput_CopyReturns(c)
                          \/ handleClientInput_ClearClient(c)
                          \/ handleClientInput_Close(c)

TermsizeSpec == TermsizeInit /\ [][TermsizeNext]_vars

\* C38: an attach that the broker rejected has not written bootstrap/termsize
\* and has left the session record as it was.
C38_RejectedAttachNoEffect ==
    \A c \in Clients :
        (boot.pc = "attach" /\ result[c] = "rejected") => (~boot.wrote[c] /\ store.status = "running")

====
